---- MODULE Spec2Model ----
(***************************************************************************)
(* A model of the document model and transform engine of prosemirror-go:   *)
(* nodes, fragments, position resolution and its cache, the replace        *)
(* algorithm, slices, and the steps that wrap them.                        *)
(*                                                                         *)
(* Values.  A node is a record                                             *)
(*   [type, attrs, content, text, marks, isText]                           *)
(* where content is a fragment [content, size] (the node sequence and the  *)
(* cached Size field), text is the sequence of bytes of a text node (Go    *)
(* strings are byte strings and len() counts bytes), marks is a sequence   *)
(* of marks [type, attrs], and attrs is a set of <<name, value>> pairs.    *)
(* Indices are 0-based as in the Go code; they are shifted by one only     *)
(* where a TLA+ sequence is subscripted.                                   *)
(*                                                                         *)
(* Results.  A Go function returning (value, error) becomes an operator    *)
(* returning Ok(v) or Err(msg); a Go panic (explicit panic(), an index out *)
(* of range, a nil dereference) becomes Panic(msg) and is propagated by    *)
(* every caller, as no code on these paths recovers.                       *)
(***************************************************************************)
EXTENDS Integers, Sequences, FiniteSets, TLC

\* Let(v, LAMBDA x : e) is e with x bound to the value of v.
Let(v, Op(_)) == Op(v)

Ok(v) == [tag |-> "ok", val |-> v]
Err(m) == [tag |-> "err", msg |-> m]
Panic(m) == [tag |-> "panic", msg |-> m]
IsOk(r) == r.tag = "ok"

Min(a, b) == IF a < b THEN a ELSE b
Max(a, b) == IF a > b THEN a ELSE b

(***************************************************************************)
(* The schema.  A schema is an input of the library (NewSchema compiles a  *)
(* SchemaSpec); the one used here follows schema/basic, with blockquote in *)
(* the block group and hard_break inline as the test documents of          *)
(* model/replace_test.go require, with the marks remark, user and strong2  *)
(* of the schema of the mark tests, and with a node type mention and a     *)
(* mark type comment whose attribute id has no AttributeSpec.              *)
(***************************************************************************)
NodeTypeNames ==
  {"doc", "paragraph", "blockquote", "heading", "code_block", "text", "image",
   "mention", "hard_break"}

\* NodeSpec.Content of every node type.
ContentExpr(t) ==
  CASE t = "doc" -> "block+"
    [] t = "blockquote" -> "block+"
    [] t = "paragraph" -> "inline*"
    [] t = "heading" -> "inline*"
    [] t = "code_block" -> "text*"
    [] OTHER -> ""

\* NodeSpec.Inline
SpecInline(t) == t \in {"text", "image", "mention", "hard_break"}

BlockGroup == <<"paragraph", "blockquote", "heading", "code_block">>
InlineGroup == <<"text", "image", "mention", "hard_break">>

\* The automaton states dfa(nfa(expr)) builds for the content expressions of
\* the schema: validEnd and the ordered edge list next (type, target state).
EdgesTo(types, target) == [i \in 1..Len(types) |-> <<types[i], target>>]

ContentMatchState(id) ==
  CASE id = "block+" -> [validEnd |-> FALSE, next |-> EdgesTo(BlockGroup, "block+/1")]
    [] id = "block+/1" -> [validEnd |-> TRUE, next |-> EdgesTo(BlockGroup, "block+/1")]
    [] id = "inline*" -> [validEnd |-> TRUE, next |-> EdgesTo(InlineGroup, "inline*")]
    [] id = "text*" -> [validEnd |-> TRUE, next |-> EdgesTo(<<"text">>, "text*")]
    [] OTHER -> [validEnd |-> TRUE, next |-> <<>>]

EmptyContentMatch == ""
NoMatch == "nil"

\* NodeType.ContentMatch: the start state of the type's content expression.
ContentMatchOf(t) == ContentExpr(t)

\* ContentMatch.inlineContent
inlineContent(cm) ==
  Let(ContentMatchState(cm).next, LAMBDA next :
     IF Len(next) = 0 THEN FALSE ELSE SpecInline(next[1][1]))

\* NodeType.MarkSet as NewSchema computes it: MarkSetIsNil is the nil set
\* (every mark allowed), otherwise MarkSetOf lists the allowed mark types.
MarkSetIsNil(t) == t # "code_block" /\ inlineContent(ContentMatchOf(t))
MarkSetOf(t) == {}

\* The MarkSpecs of the schema, in order: those of schema/basic, and marks
\* with the excludes of the schema of the mark tests.  A *string is nil
\* (NoString) or a string, given by its fields: strings.Fields of Excludes
\* and of Group.
NoString == [set |-> FALSE, fields |-> <<>>]
StringOf(fields) == [set |-> TRUE, fields |-> fields]

MarkSpecs ==
  << [Key |-> "link", Excludes |-> NoString, Group |-> <<>>],
     [Key |-> "em", Excludes |-> NoString, Group |-> <<"em-group">>],
     [Key |-> "strong", Excludes |-> NoString, Group |-> <<>>],
     [Key |-> "code", Excludes |-> NoString, Group |-> <<>>],
     [Key |-> "remark", Excludes |-> StringOf(<<>>), Group |-> <<>>],
     [Key |-> "user", Excludes |-> StringOf(<<"_">>), Group |-> <<>>],
     [Key |-> "strong2", Excludes |-> StringOf(<<"em-group">>), Group |-> <<>>],
     [Key |-> "comment", Excludes |-> NoString, Group |-> <<>>] >>

MarkTypeNames == { MarkSpecs[i].Key : i \in DOMAIN MarkSpecs }
MarkSpecOf(mt) == MarkSpecs[CHOOSE i \in DOMAIN MarkSpecs : MarkSpecs[i].Key = mt]

\* MarkType.Rank: the index compileMarkType gives.
Rank(mt) == (CHOOSE i \in DOMAIN MarkSpecs : MarkSpecs[i].Key = mt) - 1

hasGroup(groups, group) == \E i \in DOMAIN groups : groups[i] = group

\* gatherMarks: the mark types the names stand for, in order.
RECURSIVE gatherMarks(_)
gatherMarks(marks) ==
  IF marks = <<>> THEN Ok(<<>>)
  ELSE Let(Head(marks), LAMBDA name :
       Let(IF name \in MarkTypeNames THEN <<name>>
           ELSE [i \in 1..Len(
                   SelectSeq(MarkSpecs, LAMBDA m : name = "_" \/ hasGroup(m.Group, name)))
                 |-> SelectSeq(MarkSpecs,
                               LAMBDA m : name = "_" \/ hasGroup(m.Group, name))[i].Key],
           LAMBDA found :
             IF found = <<>> THEN Err("Unknown mark type: " \o name)
             ELSE Let(gatherMarks(Tail(marks)), LAMBDA rest :
                    IF ~IsOk(rest) THEN rest ELSE Ok(found \o rest.val))))

\* MarkType.Excluded as NewSchema sets it, as a set.
Excluded(mt) ==
  Let(MarkSpecOf(mt).Excludes, LAMBDA excl :
     IF ~excl.set THEN {mt}
     ELSE IF excl.fields = <<>> THEN {}
     ELSE Let(gatherMarks(excl.fields).val, LAMBDA gathered :
            { gathered[i] : i \in DOMAIN gathered }))

NodeTypeIsText(t) == t = "text"
NodeTypeIsBlock(t) == ~SpecInline(t) /\ t # "text"
NodeTypeIsInline(t) == ~NodeTypeIsBlock(t)
NodeTypeIsLeaf(t) == ContentMatchOf(t) = EmptyContentMatch

\* The AttributeSpecs of every node type and mark type, by attribute name.
\* A *AttributeSpec is nil (NilAttributeSpec, as a JSON null decodes) or
\* holds its Default, the nil interface GoNil when none is given.
GoNil == "<nil>"
NilAttributeSpec == [nil |-> TRUE, Default |-> GoNil]
AttributeSpec(default) == [nil |-> FALSE, Default |-> default]

AttributeSpecs(t) ==
  CASE t = "heading" -> [level |-> AttributeSpec(1)]
    [] t = "image" -> [src |-> AttributeSpec(GoNil)]
    [] t = "mention" -> [id |-> NilAttributeSpec]
    [] t = "link" -> [href |-> AttributeSpec(GoNil)]
    [] t = "remark" -> [id |-> AttributeSpec(GoNil)]
    [] t = "user" -> [id |-> AttributeSpec(GoNil)]
    [] t = "comment" -> [id |-> NilAttributeSpec]
    [] OTHER -> <<>>

NewAttribute(options) ==
  IF options.nil THEN [HasDefault |-> FALSE, Default |-> GoNil]
  ELSE [HasDefault |-> TRUE, Default |-> options.Default]

initAttrs(attrs) == [name \in DOMAIN attrs |-> NewAttribute(attrs[name])]

\* NodeType.Attrs and MarkType.Attrs
Attrs(t) == initAttrs(AttributeSpecs(t))

\* defaultAttrs; the nil map it returns when an attribute has no default
\* is, like the empty map, of length 0.
defaultAttrs(attrs) ==
  IF \E name \in DOMAIN attrs : ~attrs[name].HasDefault THEN {}
  ELSE { <<name, attrs[name].Default>> : name \in DOMAIN attrs }

\* NodeType.DefaultAttrs
DefaultAttrs(t) == defaultAttrs(Attrs(t))

(***************************************************************************)
(* Content matching                                                        *)
(***************************************************************************)
RECURSIVE MatchTypeFrom(_, _, _)
MatchTypeFrom(next, typ, i) ==
  IF i > Len(next) THEN NoMatch
  ELSE IF next[i][1] = typ THEN next[i][2]
  ELSE MatchTypeFrom(next, typ, i + 1)

MatchType(cm, typ) == MatchTypeFrom(ContentMatchState(cm).next, typ, 1)

RECURSIVE MatchFragmentFrom(_, _, _)
MatchFragmentFrom(cur, frag, i) ==
  IF cur = NoMatch \/ i > Len(frag.content) THEN cur
  ELSE MatchFragmentFrom(MatchType(cur, frag.content[i].type), frag, i + 1)

MatchFragment(cm, frag) == MatchFragmentFrom(cm, frag, 1)

compatible(cm, other) ==
  Let(ContentMatchState(cm).next, LAMBDA a :
  Let(ContentMatchState(other).next, LAMBDA b :
     \E i \in 1..Len(a) : \E j \in 1..Len(b) : a[i][1] = b[j][1]))

compatibleContent(nt, other) ==
  nt = other \/ compatible(ContentMatchOf(nt), ContentMatchOf(other))

AllowsMarkType(nt, markType) ==
  IF MarkSetIsNil(nt) THEN TRUE ELSE markType \in MarkSetOf(nt)

AllowsMarks(nt, marks) ==
  IF MarkSetIsNil(nt) THEN TRUE
  ELSE \A i \in 1..Len(marks) : AllowsMarkType(nt, marks[i].type)

ValidContent(nt, content) ==
  Let(MatchFragment(ContentMatchOf(nt), content), LAMBDA result :
     IF result = NoMatch \/ ~ContentMatchState(result).validEnd THEN FALSE
     ELSE \A i \in 1..Len(content.content) : AllowsMarks(nt, content.content[i].marks))

(***************************************************************************)
(* Marks                                                                   *)
(***************************************************************************)
NoMarks == <<>>

NewMark(typ, attrs) == [type |-> typ, attrs |-> attrs]

\* Mark.Eq
MarkEq(m, other) ==
  /\ m.type = other.type
  /\ Cardinality(m.attrs) = Cardinality(other.attrs)
  /\ m.attrs = other.attrs

\* MarkType.Excludes
Excludes(mt, other) ==
  IF Excluded(mt) = {} THEN FALSE ELSE other \in Excluded(mt)

\* Mark.AddToSet without the return for a mark that excludes the new one.
RECURSIVE AddToSetLoopNoRefusal(_, _, _, _, _, _)
AddToSetLoopNoRefusal(m, set, i, cpy, hasCpy, placed) ==
  IF i > Len(set)
  THEN LET c == IF hasCpy THEN cpy ELSE set
       IN IF placed THEN c ELSE Append(c, m)
  ELSE LET other == set[i]
           prefix == IF hasCpy THEN cpy ELSE SubSeq(set, 1, i - 1)
       IN IF MarkEq(m, other) THEN set
          ELSE IF Excludes(m.type, other.type)
          THEN AddToSetLoopNoRefusal(m, set, i + 1, prefix, TRUE, placed)
          ELSE Let(~placed /\ Rank(other.type) > Rank(m.type), LAMBDA place :
               LET c1 == IF place THEN Append(prefix, m) ELSE cpy
                   has1 == hasCpy \/ place
                   c2 == IF has1 THEN Append(c1, other) ELSE c1
               IN AddToSetLoopNoRefusal(m, set, i + 1, c2, has1, placed \/ place))

\* Mark.AddToSet; hasCpy is cpy != nil.
RECURSIVE AddToSetLoop(_, _, _, _, _, _)
AddToSetLoop(m, set, i, cpy, hasCpy, placed) ==
  IF i > Len(set)
  THEN LET c == IF hasCpy THEN cpy ELSE set
       IN IF placed THEN c ELSE Append(c, m)
  ELSE LET other == set[i]
           prefix == IF hasCpy THEN cpy ELSE SubSeq(set, 1, i - 1)
       IN IF MarkEq(m, other) THEN set
          ELSE IF Excludes(m.type, other.type)
          THEN AddToSetLoop(m, set, i + 1, prefix, TRUE, placed)
          ELSE IF Excludes(other.type, m.type) THEN set
          ELSE Let(~placed /\ Rank(other.type) > Rank(m.type), LAMBDA place :
               LET c1 == IF place THEN Append(prefix, m) ELSE cpy
                   has1 == hasCpy \/ place
                   c2 == IF has1 THEN Append(c1, other) ELSE c1
               IN AddToSetLoop(m, set, i + 1, c2, has1, placed \/ place))

AddToSet(m, set) == AddToSetLoop(m, set, 1, <<>>, FALSE, FALSE)

RECURSIVE RemoveFromSetLoop(_, _, _)
RemoveFromSetLoop(m, set, i) ==
  IF i > Len(set) THEN set
  ELSE IF MarkEq(m, set[i])
  THEN SubSeq(set, 1, i - 1) \o SubSeq(set, i + 1, Len(set))
  ELSE RemoveFromSetLoop(m, set, i + 1)

RemoveFromSet(m, set) == RemoveFromSetLoop(m, set, 1)

\* sameMarks compares the mark pointers; marks of one schema with equal type
\* and attrs are compared by value here.
sameMarks(a, b) ==
  /\ Len(a) = Len(b)
  /\ \A i \in 1..Len(a) : a[i] = b[i]

SameMarkSet(a, b) ==
  /\ Len(a) = Len(b)
  /\ \A i \in 1..Len(a) : MarkEq(a[i], b[i])

(***************************************************************************)
(* Nodes and fragments                                                     *)
(***************************************************************************)
EmptyFragment == [content |-> <<>>, size |-> 0]

NewNode(typ, attrs, content, marks) ==
  [type |-> typ, attrs |-> attrs, content |-> content, text |-> <<>>,
   marks |-> marks, isText |-> FALSE]

NewTextNode(typ, attrs, text, marks) ==
  [type |-> typ, attrs |-> attrs, content |-> EmptyFragment, text |-> text,
   marks |-> marks, isText |-> TRUE]

\* The nil *Node that MaybeChild, FirstChild and NodeAt may return.
NilNode ==
  [type |-> "nil", attrs |-> {}, content |-> EmptyFragment, text |-> <<>>,
   marks |-> <<>>, isText |-> FALSE]

IsText(n) == n.isText
IsLeaf(n) == NodeTypeIsLeaf(n.type)
IsBlock(n) == NodeTypeIsBlock(n.type)
IsInline(n) == NodeTypeIsInline(n.type)

NodeSize(n) ==
  IF IsText(n) THEN Len(n.text)
  ELSE IF IsLeaf(n) THEN 1
  ELSE 2 + n.content.size

RECURSIVE SumNodeSize(_, _)
SumNodeSize(content, i) ==
  IF i > Len(content) THEN 0
  ELSE NodeSize(content[i]) + SumNodeSize(content, i + 1)

\* NewFragment(content) without a size recounts; with a size it trusts it.
NewFragment(content) == [content |-> content, size |-> SumNodeSize(content, 1)]
NewFragmentSized(content, size) == [content |-> content, size |-> size]

ChildCount(n) == Len(n.content.content)
FragmentMaybeChild(f, index) ==
  IF index >= Len(f.content) THEN NilNode ELSE f.content[index + 1]
MaybeChild(n, index) == FragmentMaybeChild(n.content, index)
FragmentChild(f, index) ==
  IF index >= Len(f.content) THEN Err("Index out of range")
  ELSE IF index < 0 THEN Panic("index out of range")
  ELSE Ok(f.content[index + 1])
FirstChild(f) == IF Len(f.content) = 0 THEN NilNode ELSE f.content[1]
LastChild(f) == IF Len(f.content) = 0 THEN NilNode ELSE f.content[Len(f.content)]

HasAttr(attrs, k) == \E p \in attrs : p[1] = k
AttrVal(attrs, k) == (CHOOSE p \in attrs : p[1] = k)[2]
SetAttr(attrs, k, v) == {p \in attrs : p[1] # k} \cup {<<k, v>>}

\* Node.HasMarkup assigns n.Attrs["nodeType"] on one path; this is the value
\* of n.Attrs when it returns.
HasMarkupAttrs(n, typ, attrs) ==
  IF n.type # typ \/ n.attrs = attrs THEN n.attrs
  ELSE IF HasAttr(n.attrs, "nodeType") \/ ~HasAttr(attrs, "nodeType") THEN n.attrs
  ELSE SetAttr(n.attrs, "nodeType", AttrVal(attrs, "nodeType"))

HasMarkup(n, typ, attrs, marks) ==
  IF n.type # typ THEN FALSE
  ELSE IF n.attrs # attrs /\
          (\/ HasAttr(n.attrs, "nodeType")
           \/ ~HasAttr(attrs, "nodeType")
           \/ HasMarkupAttrs(n, typ, attrs) # attrs)
  THEN FALSE
  ELSE SameMarkSet(n.marks, marks)

SameMarkup(n, other) == HasMarkup(n, other.type, other.attrs, other.marks)

RECURSIVE NodeEq(_, _)
\* Fragment.Eq
FragmentEq(f, other) ==
  /\ Len(f.content) = Len(other.content)
  /\ \A i \in 1..Len(f.content) : NodeEq(f.content[i], other.content[i])

\* Node.Eq
NodeEq(n, other) == n = other \/ (SameMarkup(n, other) /\ FragmentEq(n.content, other.content))

Copy(n, content) == NewNode(n.type, n.attrs, content, n.marks)

WithText(n, text) ==
  IF text = n.text THEN n ELSE NewTextNode(n.type, n.attrs, text, n.marks)

\* Node.Mark
Mark(n, marks) ==
  IF sameMarks(n.marks, marks) THEN n
  ELSE IF IsText(n) THEN NewTextNode(n.type, n.attrs, n.text, marks)
  ELSE NewNode(n.type, n.attrs, n.content, marks)

\* s[from:to] of a Go string.
Substr(s, from, to) == SubSeq(s, from + 1, to)

\* Fragment.Append
FragmentAppend(f, other) ==
  IF other.size = 0 THEN f
  ELSE IF f.size = 0 THEN other
  ELSE LET last == LastChild(f)
           first == FirstChild(other)
           n == Len(f.content)
       IN IF IsText(last) /\ SameMarkup(last, first)
          THEN NewFragmentSized(
                 [f.content EXCEPT ![n] = WithText(last, last.text \o first.text)]
                   \o Tail(other.content),
                 f.size + other.size)
          ELSE NewFragmentSized(f.content \o other.content, f.size + other.size)

RECURSIVE FragmentCut(_, _, _)
RECURSIVE FragmentCutLoop(_, _, _, _, _, _, _)

\* Node.Cut(from, to)
NodeCut(n, from, to) ==
  IF IsText(n)
  THEN IF from = 0 /\ to = Len(n.text) THEN n
       ELSE WithText(n, Substr(n.text, from, to))
  ELSE IF from = 0 /\ to = n.content.size THEN n
  ELSE Copy(n, FragmentCut(n.content, from, to))

\* Node.Cut(from)
NodeCutFrom(n, from) ==
  IF IsText(n) THEN NodeCut(n, from, Len(n.text))
  ELSE Copy(n, FragmentCut(n.content, from, n.content.size))

\* The loop of Fragment.Cut over the children from index i on.
FragmentCutLoop(f, from, t, i, pos, result, size) ==
  IF i > Len(f.content) \/ pos >= t THEN NewFragmentSized(result, size)
  ELSE LET child == f.content[i]
           end == pos + NodeSize(child)
       IN IF end > from
          THEN Let(IF pos < from \/ end > t
                     THEN IF IsText(child)
                          THEN NodeCut(child, Max(0, from - pos), Min(Len(child.text), t - pos))
                          ELSE NodeCut(child, Max(0, from - pos - 1),
                                       Min(child.content.size, t - pos - 1))
                     ELSE child, LAMBDA cut :
                  FragmentCutLoop(f, from, t, i + 1, end,
                                  Append(result, cut), size + NodeSize(cut)))
          ELSE FragmentCutLoop(f, from, t, i + 1, end, result, size)

\* Fragment.Cut(from, to)
FragmentCut(f, from, t) ==
  IF from = 0 /\ t = f.size THEN f
  ELSE IF t > from THEN FragmentCutLoop(f, from, t, 1, 0, <<>>, 0)
  ELSE NewFragmentSized(<<>>, 0)

\* Fragment.Cut(from)
FragmentCutFrom(f, from) == FragmentCut(f, from, f.size)

\* Mutant: ReplaceChild passes on the size of the fragment it copies.
ReplaceChildKeepSize(f, index, node) ==
  LET current == f.content[index + 1]
  IN IF current = node THEN f
     ELSE NewFragmentSized([f.content EXCEPT ![index + 1] = node], f.size)

\* Fragment.ReplaceChild
ReplaceChild(f, index, node) ==
  LET current == f.content[index + 1]
  IN IF current = node THEN f
     ELSE NewFragmentSized([f.content EXCEPT ![index + 1] = node],
                           f.size + NodeSize(node) - NodeSize(current))

\* FragmentFromArray.  joined starts as array[0:i] and so shares the backing
\* array of its argument: every write to joined is a write to array.  jl is
\* len(joined), 0 while joined is nil.  The value is the final array, the
\* length of joined and the size.
RECURSIVE FragmentFromArrayLoop(_, _, _, _, _)
FragmentFromArrayLoop(orig, array, i, jl, size) ==
  IF i > Len(orig) THEN [array |-> array, jl |-> jl, size |-> size]
  ELSE LET node == array[i]
           size1 == size + NodeSize(node)
       IN IF i > 1 /\ IsText(node) /\ SameMarkup(array[i - 1], node)
          THEN LET jl1 == IF jl = 0 THEN i - 1 ELSE jl
                   was == array[jl1].text
               IN FragmentFromArrayLoop(orig,
                    [array EXCEPT ![jl1] = WithText(node, was \o node.text)],
                    i + 1, jl1, size1)
          ELSE IF jl > 0
          THEN FragmentFromArrayLoop(orig, [array EXCEPT ![jl + 1] = node], i + 1, jl + 1, size1)
          ELSE FragmentFromArrayLoop(orig, array, i + 1, jl, size1)

FragmentFromArray(array) ==
  IF Len(array) = 0 THEN EmptyFragment
  ELSE Let(FragmentFromArrayLoop(array, array, 1, 0, 0), LAMBDA run :
          IF run.jl = 0 THEN NewFragmentSized(array, run.size)
          ELSE NewFragmentSized(SubSeq(run.array, 1, run.jl), run.size))

\* FragmentFrom(*Node)
FragmentFromNode(node) == NewFragmentSized(<<node>>, NodeSize(node))

(***************************************************************************)
(* Positions                                                               *)
(***************************************************************************)
\* The loop of Fragment.findIndex rounding up from round 0 on.
RECURSIVE findIndexLoopRoundZero(_, _, _, _, _)
findIndexLoopRoundZero(f, pos, r, i, curPos) ==
  IF i > Len(f.content) THEN Panic("Unexpected state")
  ELSE LET end == curPos + NodeSize(f.content[i])
       IN IF end >= pos
          THEN IF end = pos \/ r >= 0
               THEN Ok([index |-> i, offset |-> end])
               ELSE Ok([index |-> i - 1, offset |-> curPos])
          ELSE findIndexLoopRoundZero(f, pos, r, i + 1, end)

RECURSIVE findIndexLoop(_, _, _, _, _)
findIndexLoop(f, pos, r, i, curPos) ==
  IF i > Len(f.content) THEN Panic("Unexpected state")
  ELSE LET end == curPos + NodeSize(f.content[i])
       IN IF end >= pos
          THEN IF end = pos \/ r > 0
               THEN Ok([index |-> i, offset |-> end])
               ELSE Ok([index |-> i - 1, offset |-> curPos])
          ELSE findIndexLoop(f, pos, r, i + 1, end)

\* Fragment.findIndex(pos, round)
findIndexRound(f, pos, r) ==
  IF pos = 0 THEN Ok([index |-> 0, offset |-> pos])
  ELSE IF pos = f.size THEN Ok([index |-> Len(f.content), offset |-> pos])
  ELSE IF pos > f.size \/ pos < 0
  THEN Err("Position " \o ToString(pos) \o " outside of fragment")
  ELSE findIndexLoop(f, pos, r, 1, 0)

\* Fragment.findIndex(pos): round defaults to -1.
findIndex(f, pos) == findIndexRound(f, pos, -1)

NewResolvedPos(pos, path, parentOffset) ==
  [pos |-> pos, path |-> path, depth |-> (Len(path) \div 3) - 1,
   parentOffset |-> parentOffset]

\* The loop of resolvePos.
\* Mutant: descending into a child does not count its opening token.
RECURSIVE resolvePosLoopNoOpen(_, _, _, _, _)
resolvePosLoopNoOpen(pos, node, path, start, parentOffset) ==
  Let(findIndex(node.content, parentOffset), LAMBDA fi :
     IF ~IsOk(fi) THEN fi
     ELSE LET index == fi.val.index
              offset == fi.val.offset
              rem == parentOffset - offset
              path1 == path \o <<node, index, start + offset>>
          IN IF rem = 0 THEN Ok(NewResolvedPos(pos, path1, parentOffset))
             ELSE Let(FragmentChild(node.content, index), LAMBDA ch :
                     IF ~IsOk(ch) THEN ch
                     ELSE IF IsText(ch.val)
                     THEN Ok(NewResolvedPos(pos, path1, parentOffset))
                     ELSE resolvePosLoopNoOpen(pos, ch.val, path1, start + offset, rem - 1)))

\* The loop of resolvePos.
RECURSIVE resolvePosLoop(_, _, _, _, _)
resolvePosLoop(pos, node, path, start, parentOffset) ==
  Let(findIndex(node.content, parentOffset), LAMBDA fi :
     IF ~IsOk(fi) THEN fi
     ELSE LET index == fi.val.index
              offset == fi.val.offset
              rem == parentOffset - offset
              path1 == path \o <<node, index, start + offset>>
          IN IF rem = 0 THEN Ok(NewResolvedPos(pos, path1, parentOffset))
             ELSE Let(FragmentChild(node.content, index), LAMBDA ch :
                     IF ~IsOk(ch) THEN ch
                     ELSE IF IsText(ch.val)
                     THEN Ok(NewResolvedPos(pos, path1, parentOffset))
                     ELSE resolvePosLoop(pos, ch.val, path1, start + offset + 1, rem - 1)))

resolvePos(doc, pos) ==
  IF ~(pos >= 0 /\ pos <= doc.content.size)
  THEN Err("Position " \o ToString(pos) \o " out of range")
  ELSE resolvePosLoop(pos, doc, <<>>, 0, pos)

\* ResolvedPos accessors at an explicit depth d.  InPath(r, d) is the
\* condition under which the subscripts of r.Path they use exist; outside it
\* the Go code panics with an index out of range.
InPath(r, d) == d >= 0 /\ d <= r.depth
RNode(r, d) == r.path[d * 3 + 1]
RIndex(r, d) == r.path[d * 3 + 2]
Parent(r) == RNode(r, r.depth)
TextOffset(r) == r.pos - r.path[Len(r.path)]
IndexAfter(r, d) ==
  RIndex(r, d) + (IF d = r.depth /\ TextOffset(r) = 0 THEN 1 ELSE 0)
Start(r, d) == IF d = 0 THEN 0 ELSE r.path[d * 3] + 1
End(r, d) == Start(r, d) + RNode(r, d).content.size

\* ResolvedPos.NodeAfter
NodeAfter(r) ==
  LET parent == Parent(r)
      index == RIndex(r, r.depth)
      dOff == TextOffset(r)
  IN IF index = ChildCount(parent) THEN Ok(NilNode)
     ELSE Let(FragmentChild(parent.content, index), LAMBDA ch :
             IF ~IsOk(ch) THEN ch
             ELSE IF dOff > 0 THEN Ok(NodeCutFrom(ch.val, dOff))
             ELSE ch)

\* ResolvedPos.NodeBefore
NodeBefore(r) ==
  LET index == RIndex(r, r.depth)
      dOff == TextOffset(r)
  IN IF dOff > 0
     THEN Let(FragmentChild(Parent(r).content, index), LAMBDA ch :
             IF ~IsOk(ch) THEN ch ELSE Ok(NodeCut(ch.val, 0, dOff)))
     ELSE IF index = 0 THEN Ok(NilNode)
     ELSE FragmentChild(Parent(r).content, index - 1)

RECURSIVE SharedDepthFrom(_, _, _)
SharedDepthFrom(r, pos, depth) ==
  IF depth <= 0 THEN 0
  ELSE IF Start(r, depth) <= pos /\ End(r, depth) >= pos THEN depth
  ELSE SharedDepthFrom(r, pos, depth - 1)

SharedDepth(r, pos) == SharedDepthFrom(r, pos, r.depth)

(***************************************************************************)
(* Slices and the replace algorithm                                        *)
(***************************************************************************)
NewSlice(content, openStart, openEnd) ==
  [content |-> content, openStart |-> openStart, openEnd |-> openEnd]

EmptySlice == NewSlice(EmptyFragment, 0, 0)

SliceSize(s) == s.content.size - s.openStart - s.openEnd

\* A nil *ResolvedPos argument of addRange.
NilPos == [pos |-> -1, path |-> <<>>, depth |-> -1, parentOffset |-> -1]

\* Mutant: replaceClose copies the node without asking its type.
replaceCloseNoCheck(node, content) == Ok(Copy(node, content))

\* replaceClose
replaceClose(node, content) ==
  IF ~ValidContent(node.type, content)
  THEN Err("Invalid content for node " \o node.type)
  ELSE Ok(Copy(node, content))

checkJoin(main, sub) ==
  IF ~compatibleContent(sub.type, main.type)
  THEN Err("Cannot join " \o sub.type \o " onto " \o main.type)
  ELSE Ok(TRUE)

joinable(before, after, depth) ==
  IF ~InPath(before, depth) \/ ~InPath(after, depth) THEN Panic("index out of range")
  ELSE LET node == RNode(before, depth)
       IN Let(checkJoin(node, RNode(after, depth)), LAMBDA cj :
          IF ~IsOk(cj) THEN cj ELSE Ok(node))

addNode(child, target) ==
  LET last == Len(target)
  IN IF last >= 1 /\ IsText(child) /\ SameMarkup(child, target[last])
     THEN [target EXCEPT ![last] = WithText(child, target[last].text \o child.text)]
     ELSE Append(target, child)

\* The loop of addRange over the children startIndex..endIndex-1 of node.
RECURSIVE addRangeLoop(_, _, _, _)
addRangeLoop(node, i, endIndex, target) ==
  IF i >= endIndex THEN Ok(target)
  ELSE Let(FragmentChild(node.content, i), LAMBDA ch :
          IF ~IsOk(ch) THEN ch
          ELSE addRangeLoop(node, i + 1, endIndex, addNode(ch.val, target)))

addRange(start, end, depth, target) ==
  LET r == IF end = NilPos THEN start ELSE end
  IN IF ~InPath(r, depth) \/ (start # NilPos /\ ~InPath(start, depth))
     THEN Panic("index out of range")
     ELSE
     LET node == RNode(r, depth)
         endIndex == IF end = NilPos THEN ChildCount(node) ELSE RIndex(end, depth)
         cutStart == start # NilPos /\ start.depth <= depth /\ TextOffset(start) # 0
         startIndex ==
           IF start = NilPos THEN 0
           ELSE IF start.depth > depth \/ cutStart THEN RIndex(start, depth) + 1
           ELSE RIndex(start, depth)
     IN Let(IF cutStart THEN NodeAfter(start) ELSE Ok(NilNode), LAMBDA na :
        IF ~IsOk(na) THEN na
        ELSE
        Let(IF cutStart THEN addNode(na.val, target) ELSE target, LAMBDA t1 :
        Let(addRangeLoop(node, startIndex, endIndex, t1), LAMBDA t2 :
           IF ~IsOk(t2) THEN t2
           ELSE IF end # NilPos /\ end.depth = depth /\ TextOffset(end) # 0
           THEN Let(NodeBefore(end), LAMBDA nb :
                   IF ~IsOk(nb) THEN nb ELSE Ok(addNode(nb.val, t2.val)))
           ELSE t2)))

RECURSIVE replaceTwoWay(_, _, _)
replaceTwoWay(from, to, depth) ==
  Let(addRange(NilPos, from, depth, <<>>), LAMBDA c0 :
     IF ~IsOk(c0) THEN c0
     ELSE
     Let(IF from.depth > depth
           THEN Let(joinable(from, to, depth + 1), LAMBDA typ :
                   IF ~IsOk(typ) THEN typ
                   ELSE Let(replaceTwoWay(from, to, depth + 1), LAMBDA replaced :
                           IF ~IsOk(replaced) THEN replaced
                           ELSE Let(replaceClose(typ.val, replaced.val), LAMBDA closed :
                                   IF ~IsOk(closed) THEN closed
                                   ELSE Ok(addNode(closed.val, c0.val)))))
           ELSE c0, LAMBDA c1 :
        IF ~IsOk(c1) THEN c1
        ELSE Let(addRange(to, NilPos, depth, c1.val), LAMBDA c2 :
                IF ~IsOk(c2) THEN c2 ELSE Ok(NewFragment(c2.val)))))

\* The part of replaceThreeWay that closes a two-way join below depth and
\* adds the closed node to content.
closeTwoWay(open, from, to, depth, content) ==
  Let(replaceTwoWay(from, to, depth + 1), LAMBDA replaced :
     IF ~IsOk(replaced) THEN replaced
     ELSE Let(replaceClose(open, replaced.val), LAMBDA closed :
             IF ~IsOk(closed) THEN closed ELSE Ok(addNode(closed.val, content))))

RECURSIVE replaceThreeWay(_, _, _, _, _)
replaceThreeWay(from, start, end, to, depth) ==
  Let(IF from.depth > depth THEN joinable(from, start, depth + 1) ELSE Ok(NilNode), LAMBDA js :
     IF ~IsOk(js) THEN js
     ELSE
     Let(IF to.depth > depth THEN joinable(end, to, depth + 1) ELSE Ok(NilNode), LAMBDA je :
        IF ~IsOk(je) THEN je
        ELSE
        LET openStart == js.val
            openEnd == je.val
        IN Let(addRange(NilPos, from, depth, <<>>), LAMBDA c0 :
           IF ~IsOk(c0) THEN c0
           ELSE IF ~InPath(start, depth) \/ ~InPath(end, depth) THEN Panic("index out of range")
           ELSE
           Let(
                 IF openStart # NilNode /\ openEnd # NilNode
                    /\ RIndex(start, depth) = RIndex(end, depth)
                 THEN Let(checkJoin(openStart, openEnd), LAMBDA cj :
                         IF ~IsOk(cj) THEN cj
                         ELSE Let(replaceThreeWay(from, start, end, to, depth + 1), LAMBDA replaced :
                                 IF ~IsOk(replaced) THEN replaced
                                 ELSE Let(replaceClose(openStart, replaced.val), LAMBDA closed :
                                         IF ~IsOk(closed) THEN closed
                                         ELSE Ok(addNode(closed.val, c0.val)))))
                 ELSE Let(IF openStart # NilNode
                                THEN closeTwoWay(openStart, from, start, depth, c0.val)
                                ELSE c0, LAMBDA c1 :
                         IF ~IsOk(c1) THEN c1
                         ELSE Let(addRange(start, end, depth, c1.val), LAMBDA c2 :
                                 IF ~IsOk(c2) THEN c2
                                 ELSE IF openEnd # NilNode
                                 THEN closeTwoWay(openEnd, end, to, depth, c2.val)
                                 ELSE c2)), LAMBDA mid :
              IF ~IsOk(mid) THEN mid
              ELSE Let(addRange(to, NilPos, depth, mid.val), LAMBDA c4 :
                      IF ~IsOk(c4) THEN c4 ELSE Ok(NewFragment(c4.val)))))))

\* The loop of prepareSliceForReplace that wraps node in the ancestors of
\* along, from depth i down to the root.
RECURSIVE wrapAlong(_, _, _)
wrapAlong(along, node, i) ==
  IF i < 0 THEN node
  ELSE wrapAlong(along, Copy(RNode(along, i), FragmentFromNode(node)), i - 1)

prepareSliceForReplace(slice, along) ==
  LET extra == along.depth - slice.openStart
  IN IF ~InPath(along, extra) THEN Panic("index out of range")
     ELSE
     LET parent == RNode(along, extra)
     IN Let(wrapAlong(along, Copy(parent, slice.content), extra - 1), LAMBDA node :
     Let(resolvePos(node, slice.openStart + extra), LAMBDA start :
        IF ~IsOk(start) THEN start
        ELSE Let(resolvePos(node, node.content.size - slice.openEnd - extra), LAMBDA end :
                IF ~IsOk(end) THEN end
                ELSE Ok([start |-> start.val, end |-> end.val]))))

RECURSIVE replaceOuter(_, _, _, _)
replaceOuter(from, to, slice, depth) ==
  IF ~InPath(from, depth) \/ ~InPath(to, depth) THEN Panic("index out of range")
  ELSE
  LET index == RIndex(from, depth)
      node == RNode(from, depth)
  IN IF index = RIndex(to, depth) /\ depth < from.depth - slice.openStart
     THEN Let(replaceOuter(from, to, slice, depth + 1), LAMBDA inner :
             IF ~IsOk(inner) THEN inner
             ELSE IF index >= ChildCount(node) THEN Panic("index out of range")
             ELSE Ok(Copy(node, ReplaceChild(node.content, index, inner.val))))
     ELSE IF slice.content.size = 0
     THEN Let(replaceTwoWay(from, to, depth), LAMBDA replaced :
             IF ~IsOk(replaced) THEN replaced ELSE replaceClose(node, replaced.val))
     ELSE IF slice.openStart = 0 /\ slice.openEnd = 0 /\ from.depth = depth /\ to.depth = depth
     THEN LET parent == Parent(from)
          IN Let(FragmentAppend(
                           FragmentAppend(FragmentCut(parent.content, 0, from.parentOffset),
                                          slice.content),
                           FragmentCutFrom(parent.content, to.parentOffset)), LAMBDA content :
             replaceClose(parent, content))
     ELSE Let(prepareSliceForReplace(slice, from), LAMBDA prep :
             IF ~IsOk(prep) THEN prep
             ELSE Let(replaceThreeWay(from, prep.val.start, prep.val.end, to, depth), LAMBDA replaced :
                     IF ~IsOk(replaced) THEN replaced ELSE replaceClose(node, replaced.val)))

replace(from, to, slice) ==
  IF slice.openStart > from.depth
  THEN Err("Inserted content deeper than insertion position")
  ELSE IF from.depth - slice.openStart # to.depth - slice.openEnd
  THEN Err("Inconsistent open depths")
  ELSE replaceOuter(from, to, slice, 0)

(***************************************************************************)
(* Node.Resolve, Node.Slice and Node.Replace.  Node.Resolve goes through   *)
(* resolvePosCached; the pure operators below use the uncached resolvePos, *)
(* and the cache is modelled as state of its own further down.             *)
(***************************************************************************)
NodeResolve(doc, pos) == resolvePos(doc, pos)

NodeSlice(doc, from, to) ==
  IF from = to THEN Ok(EmptySlice)
  ELSE Let(NodeResolve(doc, from), LAMBDA rFrom :
          IF ~IsOk(rFrom) THEN rFrom
          ELSE Let(NodeResolve(doc, to), LAMBDA rTo :
                  IF ~IsOk(rTo) THEN rTo
                  ELSE Let(SharedDepth(rFrom.val, to), LAMBDA depth :
                       LET start == Start(rFrom.val, depth)
                           node == RNode(rFrom.val, depth)
                       IN Let(FragmentCut(node.content, rFrom.val.pos - start,
                                                  rTo.val.pos - start), LAMBDA content :
                          Ok(NewSlice(content, rFrom.val.depth - depth, rTo.val.depth - depth))))))

NodeReplace(doc, from, to, slice) ==
  Let(NodeResolve(doc, from), LAMBDA rFrom :
     IF ~IsOk(rFrom) THEN rFrom
     ELSE Let(NodeResolve(doc, to), LAMBDA rTo :
             IF ~IsOk(rTo) THEN rTo
             ELSE replace(rFrom.val, rTo.val, slice)))

\* Node.NodeAt: the node directly after pos, NilNode when there is none.
RECURSIVE NodeAt(_, _)
NodeAt(n, pos) ==
  Let(findIndex(n.content, pos), LAMBDA fi :
     IF ~IsOk(fi) THEN Panic(fi.msg)
     ELSE LET node == MaybeChild(n, fi.val.index)
          IN IF node = NilNode THEN Ok(NilNode)
             ELSE IF fi.val.offset = pos \/ IsText(node) THEN Ok(node)
             ELSE NodeAt(node, pos - (fi.val.offset + 1)))

RECURSIVE removeRange(_, _, _)
removeRange(content, from, to) ==
  Let(findIndex(content, from), LAMBDA fi :
     IF ~IsOk(fi) THEN fi
     ELSE
     LET index == fi.val.index
         offset == fi.val.offset
         child == FragmentMaybeChild(content, index)
     IN Let(findIndex(content, to), LAMBDA ft :
        IF ~IsOk(ft) THEN ft
        ELSE IF offset = from \/ (child # NilNode /\ IsText(child))
        THEN Let(IF ft.val.offset # to
                         THEN FragmentChild(content, ft.val.index)
                         ELSE Ok(NilNode), LAMBDA chTo :
                IF ~IsOk(chTo) THEN chTo
                ELSE IF ft.val.offset # to /\ ~IsText(chTo.val)
                THEN Err("Removing non-flat range")
                ELSE Ok(FragmentAppend(FragmentCut(content, 0, from),
                                       FragmentCutFrom(content, to))))
        ELSE IF child = NilNode THEN Panic("nil pointer dereference")
        ELSE IF index # ft.val.index THEN Err("Removing non-flat range")
        ELSE Let(removeRange(child.content, from - offset - 1, to - offset - 1), LAMBDA removed :
                IF ~IsOk(removed) THEN removed
                ELSE Ok(ReplaceChild(content, index, Copy(child, removed.val))))))

\* insertInto with parent = nil, the only way Slice.InsertAt calls it; a nil
\* fragment result is NilFragment.
NilFragment == [content |-> <<>>, size |-> -1]

RECURSIVE insertInto(_, _, _)
insertInto(content, dist, insert) ==
  Let(findIndex(content, dist), LAMBDA fi :
     IF ~IsOk(fi) THEN fi
     ELSE
     LET index == fi.val.index
         offset == fi.val.offset
         child == FragmentMaybeChild(content, index)
     IN IF offset = dist \/ (child # NilNode /\ IsText(child))
        THEN Ok(FragmentAppend(FragmentAppend(FragmentCut(content, 0, dist), insert),
                               FragmentCutFrom(content, dist)))
        ELSE IF child = NilNode THEN Panic("nil pointer dereference")
        ELSE Let(insertInto(child.content, dist - offset - 1, insert), LAMBDA inner :
                IF ~IsOk(inner) THEN inner
                ELSE IF inner.val = NilFragment THEN Ok(NilFragment)
                ELSE Ok(ReplaceChild(content, index, Copy(child, inner.val)))))

\* A nil *Slice.
NilSlice == NewSlice(NilFragment, 0, 0)

\* Slice.InsertAt drops the error of insertInto and returns nil for it.
InsertAt(s, pos, fragment) ==
  Let(insertInto(s.content, pos + s.openStart, fragment), LAMBDA content :
     IF content.tag = "panic" THEN content
     ELSE IF content.tag = "err" THEN Ok(NilSlice)
     ELSE IF content.val = NilFragment THEN Ok(NilSlice)
     ELSE Ok(NewSlice(content.val, s.openStart, s.openEnd)))

RemoveBetween(s, from, to) ==
  Let(removeRange(s.content, from + s.openStart, to + s.openStart), LAMBDA removed :
     IF ~IsOk(removed) THEN removed
     ELSE Ok(NewSlice(removed.val, s.openStart, s.openEnd)))

(***************************************************************************)
(* Steps.  One record shape serves the five step kinds; the fields a kind  *)
(* does not have keep the values of BaseStep.  NilStep is the nil Step an  *)
(* Invert or a Merge may return.                                           *)
(***************************************************************************)
BaseStep ==
  [kind |-> "nil", from |-> 0, to |-> 0, gapFrom |-> 0, gapTo |-> 0,
   slice |-> EmptySlice, insert |-> 0, structure |-> FALSE,
   mark |-> NewMark("em", {}), pos |-> 0, attrs |-> {}]

NilStep == BaseStep

NewReplaceStep(from, to, slice, structure) ==
  [BaseStep EXCEPT !.kind = "replace", !.from = from, !.to = to,
                   !.slice = slice, !.structure = structure]

NewReplaceAroundStep(from, to, gapFrom, gapTo, slice, insert, structure) ==
  [BaseStep EXCEPT !.kind = "replaceAround", !.from = from, !.to = to,
                   !.gapFrom = gapFrom, !.gapTo = gapTo, !.slice = slice,
                   !.insert = insert, !.structure = structure]

NewAddMarkStep(from, to, mark) ==
  [BaseStep EXCEPT !.kind = "addMark", !.from = from, !.to = to, !.mark = mark]

NewRemoveMarkStep(from, to, mark) ==
  [BaseStep EXCEPT !.kind = "removeMark", !.from = from, !.to = to, !.mark = mark]

NewSetAttrsStep(pos, attrs) ==
  [BaseStep EXCEPT !.kind = "setAttrs", !.pos = pos, !.attrs = attrs]

\* StepResult: OK(doc) is Ok(doc), Fail(message) is Err(message).
FromReplace(doc, from, to, slice) == NodeReplace(doc, from, to, slice)

RECURSIVE contentBetweenUp(_, _, _)
contentBetweenUp(dfrom, dist, depth) ==
  IF dist > 0 /\ depth > 0 /\ IndexAfter(dfrom, depth) = ChildCount(RNode(dfrom, depth))
  THEN contentBetweenUp(dfrom, dist - 1, depth - 1)
  ELSE [dist |-> dist, depth |-> depth]

RECURSIVE contentBetweenDown(_, _)
contentBetweenDown(next, dist) ==
  IF dist > 0
  THEN IF next = NilNode \/ IsLeaf(next) THEN TRUE
       ELSE contentBetweenDown(FirstChild(next.content), dist - 1)
  ELSE FALSE

contentBetween(doc, from, to) ==
  Let(NodeResolve(doc, from), LAMBDA dfrom :
     IF ~IsOk(dfrom) THEN TRUE
     ELSE Let(contentBetweenUp(dfrom.val, to - from, dfrom.val.depth), LAMBDA up :
             IF up.dist > 0
             THEN contentBetweenDown(
                    MaybeChild(RNode(dfrom.val, up.depth), IndexAfter(dfrom.val, up.depth)),
                    up.dist)
             ELSE FALSE))

\* ReplaceStep.Apply inserting the slice at from without deleting the range.
ReplaceStepApplyKeepingRange(s, doc) ==
  IF s.structure /\ contentBetween(doc, s.from, s.to)
  THEN Err("Structure replace would overwrite content")
  ELSE FromReplace(doc, s.from, s.from, s.slice)

ReplaceStepApply(s, doc) ==
  IF s.structure /\ contentBetween(doc, s.from, s.to)
  THEN Err("Structure replace would overwrite content")
  ELSE FromReplace(doc, s.from, s.to, s.slice)

\* Invert and Merge return Ok(step), Ok(NilStep) for a nil step, or Panic.
ReplaceStepInvert(s, doc) ==
  Let(NodeSlice(doc, s.from, s.to), LAMBDA slice :
     IF slice.tag = "panic" THEN slice
     ELSE IF slice.tag = "err" THEN Panic(slice.msg)
     ELSE Ok(NewReplaceStep(s.from, s.from + SliceSize(s.slice), slice.val, FALSE)))

ReplaceStepMerge(s, other) ==
  IF other.kind # "replace" \/ other.structure \/ s.structure THEN NilStep
  ELSE IF s.from + SliceSize(s.slice) = other.from /\ s.slice.openStart = 0
          /\ other.slice.openEnd = 0
  THEN Let(IF SliceSize(s.slice) + SliceSize(other.slice) # 0
                    THEN NewSlice(FragmentAppend(s.slice.content, other.slice.content),
                                  s.slice.openStart, other.slice.openEnd)
                    ELSE EmptySlice, LAMBDA slice :
          NewReplaceStep(s.from, s.to + other.to - other.from, slice, s.structure))
  ELSE IF other.to = s.from /\ other.slice.openStart = 0 /\ s.slice.openEnd = 0
  THEN Let(IF SliceSize(s.slice) + SliceSize(other.slice) # 0
                    THEN NewSlice(FragmentAppend(other.slice.content, s.slice.content),
                                  other.slice.openStart, s.slice.openEnd)
                    ELSE EmptySlice, LAMBDA slice :
          NewReplaceStep(other.from, s.to, slice, s.structure))
  ELSE NilStep

ReplaceAroundStepApply(s, doc) ==
  IF s.structure /\ (contentBetween(doc, s.from, s.gapFrom)
                     \/ contentBetween(doc, s.gapTo, s.to))
  THEN Err("Structure gap-replace would overwrite content")
  ELSE Let(NodeSlice(doc, s.gapFrom, s.gapTo), LAMBDA gap :
          IF gap.tag = "panic" THEN gap
          ELSE IF gap.tag = "err" THEN Err(gap.msg)
          ELSE IF gap.val.openStart # 0 /\ gap.val.openEnd # 0
          THEN Err("Gap is not a flat range")
          ELSE Let(InsertAt(s.slice, s.insert, gap.val.content), LAMBDA inserted :
                  IF ~IsOk(inserted) THEN inserted
                  ELSE IF inserted.val = NilSlice THEN Err("Content does not fit in gap")
                  ELSE FromReplace(doc, s.from, s.to, inserted.val)))

ReplaceAroundStepInvert(s, doc) ==
  LET gap == s.gapTo - s.gapFrom
  IN Let(NodeSlice(doc, s.from, s.to), LAMBDA slice :
     IF slice.tag = "panic" THEN slice
     ELSE IF slice.tag = "err" THEN Ok(NilStep)
     ELSE Let(RemoveBetween(slice.val, s.gapFrom - s.from, s.gapTo - s.to), LAMBDA removed :
             IF removed.tag = "panic" THEN removed
             ELSE IF removed.tag = "err" THEN Ok(NilStep)
             ELSE Ok(NewReplaceAroundStep(s.from, s.from + SliceSize(s.slice) + gap,
                                          s.from + s.insert, s.from + s.insert + gap,
                                          removed.val, s.gapFrom - s.from, s.structure))))

ReplaceAroundStepMerge(s, other) == NilStep

\* computeAttrs: every declared attribute takes the given value or else its
\* default, and a missing value without a default panics.  No type of the
\* schema has two attributes without default, whose order in the map would
\* decide which of them the message names.
computeAttrs(attrs, value) ==
  Let({ name \in DOMAIN attrs : ~HasAttr(value, name) /\ ~attrs[name].HasDefault },
      LAMBDA missing :
        IF missing # {}
        THEN Panic("No value supplied for attribute " \o (CHOOSE name \in missing : TRUE))
        ELSE Ok({ <<name, IF HasAttr(value, name) THEN AttrVal(value, name)
                          ELSE attrs[name].Default>> : name \in DOMAIN attrs }))

\* NodeType.computeAttrs
NodeTypeComputeAttrs(t, attrs) ==
  IF attrs = {} /\ DefaultAttrs(t) # {} THEN Ok(DefaultAttrs(t))
  ELSE computeAttrs(Attrs(t), attrs)

\* MarkType.Create.  Instance is set only for a type with attributes, and
\* is returned only by a type without: every mark is built.
MarkTypeCreate(mt, attrs) ==
  Let(computeAttrs(Attrs(mt), attrs), LAMBDA built :
     IF ~IsOk(built) THEN built ELSE Ok(NewMark(mt, built.val)))

\* MarkSetFrom of a []*Mark: a copy sorted by rank.
RECURSIVE MarkSetFrom(_)
MarkSetFrom(marks) ==
  IF Len(marks) <= 1 THEN marks
  ELSE Let(
                    CHOOSE i \in 1..Len(marks) :
                      \A j \in 1..Len(marks) :
                        Rank(marks[i].type) < Rank(marks[j].type)
                        \/ (Rank(marks[i].type) = Rank(marks[j].type) /\ i <= j), LAMBDA least :
          <<marks[least]>>
          \o MarkSetFrom([k \in 1..(Len(marks) - 1) |->
                            IF k < least THEN marks[k] ELSE marks[k + 1]]))

\* NodeType.Create with a fragment as content.
NodeTypeCreate(t, attrs, content, marks) ==
  IF NodeTypeIsText(t) THEN Err("NodeType.create can't construct text nodes")
  ELSE Let(NodeTypeComputeAttrs(t, attrs), LAMBDA built :
          IF ~IsOk(built) THEN built
          ELSE Ok(NewNode(t, built.val, content, MarkSetFrom(marks))))

\* The callbacks of the mark steps adding the mark whatever the parent allows.
markCallbackAnyParent(mode, mark, node, parent) ==
  IF mode = "add"
  THEN Mark(node, AddToSet(mark, node.marks))
  ELSE Mark(node, RemoveFromSet(mark, node.marks))

\* The two callbacks of the mark steps, told apart by mode.
markCallback(mode, mark, node, parent) ==
  IF mode = "add"
  THEN IF ~AllowsMarkType(parent.type, mark.type) THEN node
       ELSE Mark(node, AddToSet(mark, node.marks))
  ELSE Mark(node, RemoveFromSet(mark, node.marks))

RECURSIVE mapFragmentLoop(_, _, _, _, _, _)
mapFragment(fragment, mode, mark, parent) ==
  FragmentFromArray(mapFragmentLoop(fragment, mode, mark, parent, 1, <<>>))

mapFragmentLoop(fragment, mode, mark, parent, i, mapped) ==
  IF i > Len(fragment.content) THEN mapped
  ELSE LET child == fragment.content[i]
       IN Let(IF child.content.size > 0
                     THEN Copy(child, mapFragment(child.content, mode, mark, child))
                     ELSE child, LAMBDA copied :
       Let(IF IsInline(copied) THEN markCallback(mode, mark, copied, parent)
                   ELSE copied, LAMBDA done :
          mapFragmentLoop(fragment, mode, mark, parent, i + 1, Append(mapped, done))))

AddMarkStepApply(s, doc) ==
  Let(NodeSlice(doc, s.from, s.to), LAMBDA oldSlice :
     IF oldSlice.tag = "panic" THEN oldSlice
     ELSE IF oldSlice.tag = "err" THEN Err(oldSlice.msg)
     ELSE Let(NodeResolve(doc, s.from), LAMBDA dFrom :
             IF ~IsOk(dFrom) THEN dFrom
             ELSE Let(RNode(dFrom.val, SharedDepth(dFrom.val, s.to)), LAMBDA parent :
                  Let(mapFragment(oldSlice.val.content, "add", s.mark, parent), LAMBDA fragment :
                     FromReplace(doc, s.from, s.to,
                                 NewSlice(fragment, oldSlice.val.openStart,
                                          oldSlice.val.openEnd))))))

AddMarkStepInvert(s, doc) == Ok(NewRemoveMarkStep(s.from, s.to, s.mark))

\* AddMarkStep.Merge keeping the range of the receiver.
AddMarkStepMergeOwnRange(s, other) ==
  IF other.kind = "addMark" /\ MarkEq(other.mark, s.mark)
     /\ s.from <= other.to /\ s.to >= other.from
  THEN NewAddMarkStep(s.from, s.to, s.mark)
  ELSE NilStep

AddMarkStepMerge(s, other) ==
  IF other.kind = "addMark" /\ MarkEq(other.mark, s.mark)
     /\ s.from <= other.to /\ s.to >= other.from
  THEN NewAddMarkStep(Min(s.from, other.from), Max(s.to, other.to), s.mark)
  ELSE NilStep

RemoveMarkStepApply(s, doc) ==
  Let(NodeSlice(doc, s.from, s.to), LAMBDA oldSlice :
     IF oldSlice.tag = "panic" THEN oldSlice
     ELSE IF oldSlice.tag = "err" THEN Err(oldSlice.msg)
     ELSE Let(mapFragment(oldSlice.val.content, "remove", s.mark, NilNode), LAMBDA fragment :
             FromReplace(doc, s.from, s.to,
                         NewSlice(fragment, oldSlice.val.openStart, oldSlice.val.openEnd))))

RemoveMarkStepInvert(s, doc) == Ok(NewAddMarkStep(s.from, s.to, s.mark))

RemoveMarkStepMerge(s, other) ==
  IF other.kind = "removeMark" /\ MarkEq(other.mark, s.mark)
     /\ s.from <= other.to /\ s.to >= other.from
  THEN NewRemoveMarkStep(Min(s.from, other.from), Max(s.to, other.to), s.mark)
  ELSE NilStep

\* The attribute map SetAttrsStep.Apply builds: the target's, overwritten
\* by the step's.
RECURSIVE mergeAttrs(_, _)
mergeAttrs(attrs, over) ==
  IF over = {} THEN attrs
  ELSE LET p == CHOOSE q \in over : TRUE
       IN mergeAttrs(SetAttr(attrs, p[1], p[2]), over \ {p})

SetAttrsStepApply(s, doc) ==
  Let(NodeAt(doc, s.pos), LAMBDA target :
     IF ~IsOk(target) THEN target
     ELSE IF target.val = NilNode THEN Err("No node at given position")
     ELSE Let(mergeAttrs(target.val.attrs, s.attrs), LAMBDA attrs :
          Let(NodeTypeCreate(target.val.type, attrs, EmptyFragment,
                                        target.val.marks), LAMBDA newNode :
             IF ~IsOk(newNode) THEN newNode
             ELSE LET leaf == IF ~IsLeaf(target.val) THEN 1 ELSE 0
                  IN FromReplace(doc, s.pos, s.pos + 1,
                                 NewSlice(FragmentFromNode(newNode.val), 0, leaf)))))

SetAttrsStepInvert(s, doc) ==
  Let(NodeAt(doc, s.pos), LAMBDA target :
     IF ~IsOk(target) THEN target
     ELSE IF target.val = NilNode THEN Ok(NewSetAttrsStep(s.pos, {}))
     ELSE Ok(NewSetAttrsStep(s.pos, target.val.attrs)))

SetAttrsStepMerge(s, other) == NilStep

\* Step.Apply, Step.Invert and Step.Merge dispatched on the dynamic type; a
\* method call on a nil Step panics.
StepApply(s, doc) ==
  CASE s.kind = "replace" -> ReplaceStepApply(s, doc)
    [] s.kind = "replaceAround" -> ReplaceAroundStepApply(s, doc)
    [] s.kind = "addMark" -> AddMarkStepApply(s, doc)
    [] s.kind = "removeMark" -> RemoveMarkStepApply(s, doc)
    [] s.kind = "setAttrs" -> SetAttrsStepApply(s, doc)
    [] OTHER -> Panic("nil pointer dereference")

StepInvert(s, doc) ==
  CASE s.kind = "replace" -> ReplaceStepInvert(s, doc)
    [] s.kind = "replaceAround" -> ReplaceAroundStepInvert(s, doc)
    [] s.kind = "addMark" -> AddMarkStepInvert(s, doc)
    [] s.kind = "removeMark" -> RemoveMarkStepInvert(s, doc)
    [] s.kind = "setAttrs" -> SetAttrsStepInvert(s, doc)
    [] OTHER -> Panic("nil pointer dereference")

StepMerge(s, other) ==
  CASE s.kind = "replace" -> ReplaceStepMerge(s, other)
    [] s.kind = "replaceAround" -> ReplaceAroundStepMerge(s, other)
    [] s.kind = "addMark" -> AddMarkStepMerge(s, other)
    [] s.kind = "removeMark" -> RemoveMarkStepMerge(s, other)
    [] s.kind = "setAttrs" -> SetAttrsStepMerge(s, other)
    [] OTHER -> NilStep

(***************************************************************************)
(* Document builders, as test/builder makes them: schema.Text for text and *)
(* NodeType.Create over the flattened children for the other nodes.        *)
(***************************************************************************)
Text(text, marks) == NewTextNode("text", {}, text, marks)
block(typ, attrs, children) ==
  NodeTypeCreate(typ, attrs, FragmentFromArray(children), NoMarks).val
Doc(children) == block("doc", {}, children)
P(children) == block("paragraph", {}, children)
Blockquote(children) == block("blockquote", {}, children)
H(level, children) == block("heading", {<<"level", level>>}, children)
Pre(children) == block("code_block", {}, children)
Br == block("hard_break", {}, <<>>)
Em == NewMark("em", {})
Strong == NewMark("strong", {})

(***************************************************************************)
(* Inputs of the step specifications: documents, slices and steps over a   *)
(* range of positions that reaches below 0 and beyond every document.      *)
(***************************************************************************)
MaxPos == 5
Positions == -1..MaxPos

T(s) == Text(s, NoMarks)

Docs ==
  { Doc(<<P(<<T(<<"a", "b">>)>>)>>),
    Doc(<<P(<<T(<<"a">>)>>), P(<<T(<<"b">>)>>)>>),
    Doc(<<Blockquote(<<P(<<T(<<"a">>)>>)>>)>>),
    Doc(<<P(<<Text(<<"a">>, <<Em>>), T(<<"b">>)>>)>>),
    Doc(<<H(1, <<T(<<"a">>), Br>>)>>),
    Doc(<<Pre(<<T(<<"a">>)>>), P(<<T(<<"b">>)>>)>>) }

Slices ==
  { EmptySlice,
    NewSlice(FragmentFromArray(<<T(<<"x">>)>>), 0, 0),
    NewSlice(FragmentFromArray(<<P(<<T(<<"x">>)>>)>>), 0, 1),
    NewSlice(FragmentFromArray(<<P(<<>>), P(<<>>)>>), 1, 1),
    NewSlice(FragmentFromArray(<<Blockquote(<<>>)>>), 0, 0) }

ReplaceSteps ==
  { NewReplaceStep(from, to, slice, structure) :
      from \in Positions, to \in Positions, slice \in Slices, structure \in BOOLEAN }

\* Gaps that start at most one position after from and end at most one
\* position before to.
ReplaceAroundSteps ==
  { NewReplaceAroundStep(from, to, from + g[1], to - g[2], g[3], g[4], structure) :
      from \in Positions, to \in Positions, structure \in BOOLEAN,
      g \in { <<0, 0, NewSlice(FragmentFromArray(<<Blockquote(<<>>)>>), 0, 0), 1>>,
              <<1, 1, EmptySlice, 0>>,
              <<0, 1, EmptySlice, 0>>,
              <<1, 1, NewSlice(FragmentFromArray(<<H(2, <<>>)>>), 0, 0), 1>> } }

MarkSteps ==
  { NewAddMarkStep(from, to, mark) :
      from \in Positions, to \in Positions, mark \in {Em, Strong} }
  \cup
  { NewRemoveMarkStep(from, to, mark) :
      from \in Positions, to \in Positions, mark \in {Em, Strong} }

SetAttrsSteps ==
  { NewSetAttrsStep(pos, attrs) : pos \in Positions, attrs \in {{}, {<<"level", 2>>}} }

Steps == ReplaceSteps \cup ReplaceAroundSteps \cup MarkSteps \cup SetAttrsSteps

(***************************************************************************)
(* The resolve cache: a ring of resolveCacheSize entries (doc, pos), the   *)
(* index of the slot the next insertion overwrites, and the mutex.  A      *)
(* document is held by identity (the *Node pointer): DocAt gives the       *)
(* document an identity stands for, 0 is the nil pointer of an empty slot. *)
(***************************************************************************)
resolveCacheSize == 12

CacheDocs ==
  << Doc(<<P(<<T(<<"a", "b">>)>>)>>),
     Doc(<<P(<<T(<<"a">>)>>), P(<<T(<<"b">>)>>)>>),
     Doc(<<Blockquote(<<P(<<T(<<"a">>)>>)>>)>>) >>

DocAt(id) == CacheDocs[id]

resolveEntry(d, pos) == [doc |-> d, pos |-> pos]

\* Mutant: the scan compares the position only.
cacheHitAnyDoc(entry, d, pos) == entry.pos.pos = pos

\* The test of the scan in resolvePosCached.
cacheHit(entry, d, pos) == entry.doc = d /\ entry.pos.pos = pos

\* The first entry of the cache that hits, 0 when none does.
cacheScan(cache, d, pos) ==
  IF \E i \in 1..Len(cache) : cacheHit(cache[i], d, pos)
  THEN CHOOSE i \in 1..Len(cache) :
         /\ cacheHit(cache[i], d, pos)
         /\ \A j \in 1..(i - 1) : ~cacheHit(cache[j], d, pos)
  ELSE 0

\* Mutant: resolvePosCached writing the slot without advancing the index.
resolvePosCachedNoAdvance(cache, cachePos, d, pos) ==
  Let(cacheScan(cache, d, pos), LAMBDA hit :
  Let(resolvePos(DocAt(d), pos), LAMBDA result :
     IF hit # 0
     THEN [ret |-> Ok(cache[hit].pos), hit |-> TRUE, cache |-> cache, cachePos |-> cachePos]
     ELSE IF ~IsOk(result)
     THEN [ret |-> result, hit |-> FALSE, cache |-> cache, cachePos |-> cachePos]
     ELSE [ret |-> result, hit |-> FALSE,
           cache |-> [cache EXCEPT ![cachePos + 1] = resolveEntry(d, result.val)],
           cachePos |-> cachePos]))

\* resolvePosCached as one call: the result, whether the scan found it, and
\* the cache and the index the call leaves behind.
resolvePosCached(cache, cachePos, d, pos) ==
  Let(cacheScan(cache, d, pos), LAMBDA hit :
  Let(resolvePos(DocAt(d), pos), LAMBDA result :
     IF hit # 0
     THEN [ret |-> Ok(cache[hit].pos), hit |-> TRUE, cache |-> cache, cachePos |-> cachePos]
     ELSE IF ~IsOk(result)
     THEN [ret |-> result, hit |-> FALSE, cache |-> cache, cachePos |-> cachePos]
     ELSE [ret |-> result, hit |-> FALSE,
           cache |-> [cache EXCEPT ![cachePos + 1] = resolveEntry(d, result.val)],
           cachePos |-> (cachePos + 1) % Len(cache)]))

\* The (document, position) pairs the clients of the cache resolve, in the
\* order in which a client first comes to them: position by position, from
\* -1 on, each position in every document in turn.
MaxCachePos == 6
NumKeys == Len(CacheDocs) * (MaxCachePos + 2)
KeyAt(k) == [doc |-> ((k - 1) % Len(CacheDocs)) + 1, pos |-> ((k - 1) \div Len(CacheDocs)) - 1]

\* The goroutines that resolve concurrently, and the keys they resolve.
NumProcs == 2
Procs == 1..NumProcs
ConcKeys == {KeyAt(1), KeyAt(7), KeyAt(8)}

\* resolvePos(doc, pos) of each of these keys.
ConcResolved == [key \in ConcKeys |-> resolvePos(DocAt(key.doc), key.pos)]

(***************************************************************************)
(* Inputs of the fragment operations: arrays of at most MaxLen nodes, and  *)
(* the fragments FragmentFromArray makes of the shorter ones.              *)
(***************************************************************************)
MaxLen == 3

FragNodes ==
  { T(<<"a">>), T(<<"b", "c">>), Text(<<"d">>, <<Em>>), Br, P(<<T(<<"e">>)>>) }

Arrays == UNION { [1..len -> FragNodes] : len \in 0..MaxLen }

Fragments == { FragmentFromArray(array) : array \in {a \in Arrays : Len(a) < MaxLen} }

(***************************************************************************)
(* State.                                                                  *)
(*                                                                         *)
(* A client applies steps to a document, one after the other, and may      *)
(* invert the last step and apply the inverse, or merge the last two       *)
(* steps and apply the merged step to the document it started from.        *)
(*   origDoc   the document before any step                                *)
(*   prevDoc   the document before the last successful step                *)
(*   doc       the current document                                        *)
(*   prevStep  the step applied before the last one, NilStep when none     *)
(*   step      the step of the last Apply                                  *)
(*   n         the number of Apply calls made                              *)
(*   op        the last operation                                          *)
(*   out       the StepResult of the last Apply                            *)
(*   aux       the step the last Invert or Merge returned                  *)
(*                                                                         *)
(* The resolve cache and its clients.                                      *)
(*   resolveCache, resolveCachePos   the ring and its insertion index      *)
(*   resolveCacheMutex   the goroutine holding the mutex, 0 when unlocked  *)
(*   call      the last call of a sequential client: key, result, hit     *)
(*   fresh     how many keys of KeyAt the sequential client has come to    *)
(*   inserts   the number of insertions made                               *)
(*   pc, arg   where each goroutine is in resolvePosCached, and its key    *)
(*   found     the result each goroutine holds                             *)
(*                                                                         *)
(* A client of the fragment operations.                                    *)
(*   fop       the operation called                                        *)
(*   fin       its arguments                                               *)
(*   fout      its result                                                  *)
(***************************************************************************)
VARIABLES origDoc, prevDoc, doc, prevStep, step, n, op, out, aux,
          resolveCache, resolveCachePos, resolveCacheMutex,
          call, fresh, inserts, pc, arg, found, uncached,
          fop, fin, fout

stepVars == <<origDoc, prevDoc, doc, prevStep, step, n, op, out, aux>>
cacheVars == <<resolveCache, resolveCachePos, resolveCacheMutex,
               call, fresh, inserts, pc, arg, found, uncached>>
fragVars == <<fop, fin, fout>>
vars == <<stepVars, cacheVars, fragVars>>

NoKey == [doc |-> 0, pos |-> 0]

\* The package-level variables of resolvedpos.go as initialised, and clients
\* that have not called yet.  uncached holds what resolvePos, a function of
\* the document and the position alone, returns for the keys the goroutines
\* use; no action changes it.
CacheStart ==
  /\ resolveCache = [i \in 1..resolveCacheSize |-> resolveEntry(0, NilPos)]
  /\ resolveCachePos = 0
  /\ resolveCacheMutex = 0
  /\ call = [key |-> NoKey, ret |-> Ok(NilPos), hit |-> FALSE]
  /\ fresh = 0
  /\ inserts = 0
  /\ pc = [g \in Procs |-> "idle"]
  /\ arg = [g \in Procs |-> NoKey]
  /\ found = [g \in Procs |-> Ok(NilPos)]
  /\ uncached = ConcResolved

FragStart ==
  /\ fop = "init"
  /\ fin = <<>>
  /\ fout = Ok(EmptyFragment)

StepStart(docs) ==
  /\ origDoc \in docs
  /\ prevDoc = origDoc
  /\ doc = origDoc
  /\ prevStep = NilStep
  /\ step = NilStep
  /\ n = 0
  /\ op = "init"
  /\ out = Ok(origDoc)
  /\ aux = Ok(NilStep)

StepInit == StepStart(Docs) /\ CacheStart /\ FragStart

\* result := s.Apply(doc); on success the client goes on with result.Doc.
Apply(s, max) ==
  /\ op \in {"init", "apply"}
  /\ IsOk(out)
  /\ n < max
  /\ out' = StepApply(s, doc)
  /\ step' = s
  /\ prevStep' = step
  /\ n' = n + 1
  /\ op' = "apply"
  /\ IF IsOk(out')
     THEN prevDoc' = doc /\ doc' = out'.val
     ELSE UNCHANGED <<prevDoc, doc>>
  /\ UNCHANGED <<origDoc, aux, cacheVars, fragVars>>

\* inverted := step.Invert(doc), with the document the step was applied to.
Invert ==
  /\ op = "apply"
  /\ IsOk(out)
  /\ aux' = StepInvert(step, prevDoc)
  /\ op' = "invert"
  /\ UNCHANGED <<origDoc, prevDoc, doc, prevStep, step, n, out, cacheVars, fragVars>>

\* inverted.Apply(result.Doc)
Undo ==
  /\ op = "invert"
  /\ IsOk(aux)
  /\ out' = StepApply(aux.val, doc)
  /\ op' = "undo"
  /\ UNCHANGED <<origDoc, prevDoc, doc, prevStep, step, n, aux, cacheVars, fragVars>>

\* merged, ok := step1.Merge(step2), after both have been applied in turn.
Merge ==
  /\ op = "apply"
  /\ IsOk(out)
  /\ n = 2
  /\ aux' = Ok(StepMerge(prevStep, step))
  /\ op' = "merge"
  /\ UNCHANGED <<origDoc, prevDoc, doc, prevStep, step, n, out, cacheVars, fragVars>>

\* merged.Apply(doc), with the document the first step was applied to.
ApplyMerged ==
  /\ op = "merge"
  /\ aux.val # NilStep
  /\ out' = StepApply(aux.val, origDoc)
  /\ op' = "applyMerged"
  /\ UNCHANGED <<origDoc, prevDoc, doc, prevStep, step, n, aux, cacheVars, fragVars>>

MaxSteps == 2

\* The steps of the runs that get merged: forward ranges of at most MaxSpan
\* positions inside the position range, and ReplaceAroundSteps around a gap.
MaxSpan == 1

MergeSteps ==
  { s \in Steps :
      \/ /\ s.kind \in {"replace", "addMark", "removeMark"}
         /\ 0 <= s.from /\ s.from <= s.to /\ s.to - s.from <= MaxSpan
      \/ /\ s.kind = "replaceAround"
         /\ ~s.structure /\ 0 <= s.from /\ s.to - s.from = MaxSpan + 2
      \/ /\ s.kind = "setAttrs"
         /\ 0 <= s.pos /\ s.pos < MaxPos }

\* One step applied to a document, then inverted and undone.
NextStep ==
  \/ \E s \in Steps : Apply(s, 1)
  \/ Invert
  \/ Undo

SpecStep == StepInit /\ [][NextStep]_vars

\* A short run of steps, the last two then merged.
NextMerge ==
  \/ \E s \in MergeSteps : Apply(s, MaxSteps)
  \/ Merge
  \/ ApplyMerged

SpecMerge == StepInit /\ [][NextMerge]_vars

(***************************************************************************)
(* Claims about steps.                                                     *)
(***************************************************************************)

\* C1: for every step variant, every document and every combination of
\* positions, negative and beyond the document included, Apply returns a
\* document or a failure message; it never panics.
ApplyNeverPanics == op = "apply" => out.tag \in {"ok", "err"}

\* A SetAttrsStep was applied at a position outside the document.
SetAttrsOutsideApplied ==
  /\ op = "apply"
  /\ step.kind = "setAttrs"
  /\ (step.pos < 0 \/ step.pos > origDoc.content.size)

\* C2: when s.Apply(d) succeeds with d', s.Invert(d) is a step whose Apply
\* to d' succeeds and yields a document equal to d.
InvertRestores ==
  /\ op = "invert" => IsOk(aux) /\ aux.val # NilStep
  /\ op = "undo" => IsOk(out) /\ out.val = prevDoc

\* C3: when a.Apply(d) = d1 and b.Apply(d1) = d2 succeed and a.Merge(b)
\* returns m, m.Apply(d) succeeds and yields a document equal to d2.
MergedEquivalent == op = "applyMerged" => IsOk(out) /\ out.val = doc

\* C10: ReplaceStep.Merge returns no step when either step has structure,
\* and a step it returns joins the two slices on a seam closed on both
\* sides: the slice that comes first in the merged content has openEnd 0
\* and the one that comes second has openStart 0.
MergeSeamClosed ==
  (op = "merge" /\ prevStep.kind = "replace" /\ step.kind = "replace" /\ aux.val # NilStep)
    => /\ ~prevStep.structure /\ ~step.structure
       /\ \/ /\ aux.val.slice.content
                  = FragmentAppend(prevStep.slice.content, step.slice.content)
             /\ prevStep.slice.openEnd = 0 /\ step.slice.openStart = 0
          \/ /\ aux.val.slice.content
                  = FragmentAppend(step.slice.content, prevStep.slice.content)
             /\ step.slice.openEnd = 0 /\ prevStep.slice.openStart = 0

(***************************************************************************)
(* A sequential client of the cache.  A call of Node.Resolve runs          *)
(* resolvePosCached from Lock to the deferred Unlock.  The client comes to *)
(* the keys of KeyAt in order and may resolve again any key it has come    *)
(* to; it stops inserting after MaxInserts insertions.                     *)
(***************************************************************************)
MaxInserts == 16

Resolve(k) ==
  LET key == KeyAt(k)
      r == resolvePosCached(resolveCache, resolveCachePos, key.doc, key.pos)
      inserted == r.cachePos # resolveCachePos
  IN /\ resolveCacheMutex = 0
     /\ k <= fresh + 1
     /\ inserted => inserts < MaxInserts
     /\ resolveCache' = r.cache
     /\ resolveCachePos' = r.cachePos
     /\ call' = [key |-> key, ret |-> r.ret, hit |-> r.hit]
     /\ fresh' = Max(fresh, k)
     /\ inserts' = IF inserted THEN inserts + 1 ELSE inserts
     /\ UNCHANGED <<resolveCacheMutex, pc, arg, found, uncached, stepVars, fragVars>>

NextCache == \E k \in 1..NumKeys : Resolve(k)

CacheInit == StepStart({NilNode}) /\ CacheStart /\ FragStart

SpecCache == CacheInit /\ [][NextCache]_vars

(***************************************************************************)
(* Goroutines calling Node.Resolve concurrently: resolvePosCached one      *)
(* access of the shared variables at a time.  Storing a resolveEntry       *)
(* writes its two words one after the other.                               *)
(***************************************************************************)
concUnchanged == <<call, fresh, inserts, uncached, stepVars, fragVars>>

\* doc.Resolve(pos) is called: resolveCacheMutex.Lock() is next.
Go(g, key) ==
  /\ pc[g] = "idle"
  /\ pc' = [pc EXCEPT ![g] = "lock"]
  /\ arg' = [arg EXCEPT ![g] = key]
  /\ UNCHANGED <<resolveCache, resolveCachePos, resolveCacheMutex, found, concUnchanged>>

\* Mutant: Lock returns without waiting for the mutex.
LockNoWait(g) ==
  /\ pc[g] = "lock"
  /\ resolveCacheMutex' = g
  /\ pc' = [pc EXCEPT ![g] = "scan"]
  /\ UNCHANGED <<resolveCache, resolveCachePos, arg, found, concUnchanged>>

\* resolveCacheMutex.Lock() returns.
Lock(g) ==
  /\ pc[g] = "lock"
  /\ resolveCacheMutex = 0
  /\ resolveCacheMutex' = g
  /\ pc' = [pc EXCEPT ![g] = "scan"]
  /\ UNCHANGED <<resolveCache, resolveCachePos, arg, found, concUnchanged>>

\* The scan of the entries.
Scan(g) ==
  /\ pc[g] = "scan"
  /\ LET hit == cacheScan(resolveCache, arg[g].doc, arg[g].pos)
     IN IF hit # 0
        THEN /\ found' = [found EXCEPT ![g] = Ok(resolveCache[hit].pos)]
             /\ pc' = [pc EXCEPT ![g] = "retHit"]
        ELSE /\ pc' = [pc EXCEPT ![g] = "resolve"]
             /\ UNCHANGED found
  /\ UNCHANGED <<resolveCache, resolveCachePos, resolveCacheMutex, arg, concUnchanged>>

\* result, err := resolvePos(doc, pos)
ResolveMiss(g) ==
  /\ pc[g] = "resolve"
  /\ LET result == uncached[arg[g]]
     IN /\ found' = [found EXCEPT ![g] = result]
        /\ pc' = [pc EXCEPT ![g] = IF IsOk(result) THEN "writeDoc" ELSE "retErr"]
  /\ UNCHANGED <<resolveCache, resolveCachePos, resolveCacheMutex, arg, concUnchanged>>

\* resolveCache[resolveCachePos] = resolveEntry{doc, result}, first word
WriteDoc(g) ==
  /\ pc[g] = "writeDoc"
  /\ resolveCache' = [resolveCache EXCEPT ![resolveCachePos + 1].doc = arg[g].doc]
  /\ pc' = [pc EXCEPT ![g] = "writePos"]
  /\ UNCHANGED <<resolveCachePos, resolveCacheMutex, arg, found, concUnchanged>>

\* resolveCache[resolveCachePos] = resolveEntry{doc, result}, second word
WritePos(g) ==
  /\ pc[g] = "writePos"
  /\ resolveCache' = [resolveCache EXCEPT ![resolveCachePos + 1].pos = found[g].val]
  /\ pc' = [pc EXCEPT ![g] = "advance"]
  /\ UNCHANGED <<resolveCachePos, resolveCacheMutex, arg, found, concUnchanged>>

\* resolveCachePos = (resolveCachePos + 1) % len(resolveCache)
Advance(g) ==
  /\ pc[g] = "advance"
  /\ resolveCachePos' = (resolveCachePos + 1) % Len(resolveCache)
  /\ pc' = [pc EXCEPT ![g] = "retMiss"]
  /\ UNCHANGED <<resolveCache, resolveCacheMutex, arg, found, concUnchanged>>

\* The deferred resolveCacheMutex.Unlock(), run by each of the three returns.
Unlock(g) ==
  /\ pc[g] \in {"retHit", "retMiss", "retErr"}
  /\ resolveCacheMutex' = 0
  /\ pc' = [pc EXCEPT ![g] = "idle"]
  /\ UNCHANGED <<resolveCache, resolveCachePos, arg, found, concUnchanged>>

\* The steps of a goroutine that has the mutex.
Critical(g) ==
  Scan(g) \/ ResolveMiss(g) \/ WriteDoc(g) \/ WritePos(g) \/ Advance(g) \/ Unlock(g)

NextConcurrent ==
  \E g \in Procs :
    \/ \E key \in ConcKeys : Go(g, key)
    \/ Lock(g)
    \/ Scan(g)
    \/ ResolveMiss(g)
    \/ WriteDoc(g)
    \/ WritePos(g)
    \/ Advance(g)
    \/ Unlock(g)

\* The scheduler runs every runnable goroutine (weak fairness of the steps
\* made with the mutex held), and sync.Mutex hands the lock to a goroutine
\* that keeps waiting for it (its starvation mode: strong fairness of Lock).
FairConcurrent ==
  \A g \in Procs : WF_vars(Critical(g)) /\ SF_vars(Lock(g))

SpecConcurrent == CacheInit /\ [][NextConcurrent]_vars /\ FairConcurrent

(***************************************************************************)
(* Claims about position resolution and its cache.                         *)
(***************************************************************************)

\* C4: every cached resolve call returns what uncached resolution of the
\* same document and position returns, the error of an out-of-range
\* position included, also after entries were evicted and inserted again.
CachedEqualsUncached ==
  call.key # NoKey => call.ret = resolvePos(DocAt(call.key.doc), call.key.pos)

\* The scan found a key that had been evicted and inserted again: the first
\* valid key sits in another slot than the first, which it took at first.
HitAfterReinsertion ==
  /\ call.hit
  /\ call.key = KeyAt(Len(CacheDocs) + 1)
  /\ inserts > resolveCacheSize
  /\ ~cacheHit(resolveCache[1], call.key.doc, call.key.pos)

\* C9: for a position pos with 0 <= pos <= doc.content.size, resolution
\* succeeds with r such that 0 <= r.start(d) <= r.pos <= r.end(d) <=
\* doc.content.size at every depth d from 0 to r.depth.
PositionMonotonicity ==
  (call.key # NoKey /\ 0 <= call.key.pos
     /\ call.key.pos <= DocAt(call.key.doc).content.size)
    => /\ IsOk(call.ret)
       /\ \A d \in 0..call.ret.val.depth :
            /\ 0 <= Start(call.ret.val, d)
            /\ Start(call.ret.val, d) <= call.ret.val.pos
            /\ call.ret.val.pos <= End(call.ret.val, d)
            /\ End(call.ret.val, d) <= DocAt(call.key.doc).content.size

\* A position at depth 2 that is not at the start of its parent was resolved.
DeepPositionResolved ==
  /\ call.key # NoKey
  /\ IsOk(call.ret)
  /\ call.ret.val.depth = 2
  /\ call.ret.val.parentOffset > 0

\* C5: a goroutine reads and writes the cache slots and the insertion index
\* only while it holds the mutex; a call that has returned, by a hit, a miss
\* or an error, holds it no more; no scan runs while another goroutine has
\* written one word of an entry and not the other; every call that waits
\* for the mutex returns.
MutexHeld ==
  \A g \in Procs :
    pc[g] \in {"scan", "resolve", "writeDoc", "writePos", "advance",
               "retHit", "retMiss", "retErr"} => resolveCacheMutex = g

MutexReleased == \A g \in Procs : pc[g] \in {"idle", "lock"} => resolveCacheMutex # g

NoPartialEntryRead ==
  \A g \in Procs, h \in Procs : ~(g # h /\ pc[g] = "scan" /\ pc[h] = "writePos")

CacheMutexGuards ==
  /\ [](MutexHeld /\ MutexReleased /\ NoPartialEntryRead)
  /\ \A g \in Procs : (pc[g] = "lock") ~> (pc[g] = "idle")

\* A goroutine waits for the mutex while another has written the first
\* word of an entry.
WaitsDuringWrite ==
  \E g \in Procs, h \in Procs : pc[g] = "lock" /\ pc[h] = "writePos"

(***************************************************************************)
(* The fragment operations, each applied once to well-formed inputs        *)
(***************************************************************************)
fragUnchanged == <<stepVars, cacheVars>>

\* f.Append(g)
DoAppend(f, g) ==
  /\ fop = "init"
  /\ fop' = "append"
  /\ fin' = <<f, g>>
  /\ fout' = Ok(FragmentAppend(f, g))
  /\ UNCHANGED fragUnchanged

\* f.Cut(from, to)
DoCut(f, from, to) ==
  /\ fop = "init"
  /\ fop' = "cut"
  /\ fin' = <<f, from, to>>
  /\ fout' = Ok(FragmentCut(f, from, to))
  /\ UNCHANGED fragUnchanged

\* f.ReplaceChild(index, node)
DoReplaceChild(f, index, node) ==
  /\ fop = "init"
  /\ fop' = "replaceChild"
  /\ fin' = <<f, index, node>>
  /\ fout' = Ok(ReplaceChild(f, index, node))
  /\ UNCHANGED fragUnchanged

\* FragmentFromArray(array), which FragmentFrom calls for a list of nodes
DoFragmentFromArray(array) ==
  /\ fop = "init"
  /\ fop' = "fromArray"
  /\ fin' = <<array>>
  /\ fout' = Ok(FragmentFromArray(array))
  /\ UNCHANGED fragUnchanged

\* d.Replace(from, to, slice); the fragment is the content of the new document
DoReplace(d, from, to, slice) ==
  /\ fop = "init"
  /\ fop' = "replace"
  /\ fin' = <<d, from, to, slice>>
  /\ LET r == NodeReplace(d, from, to, slice)
     IN fout' = IF IsOk(r) THEN Ok(r.val.content) ELSE r
  /\ UNCHANGED fragUnchanged

NextFragment ==
  \/ \E f \in Fragments, g \in Fragments : DoAppend(f, g)
  \/ \E f \in Fragments : \E from \in 0..f.size, to \in 0..f.size : DoCut(f, from, to)
  \/ \E f \in Fragments : \E index \in 0..(Len(f.content) - 1), node \in FragNodes :
       DoReplaceChild(f, index, node)
  \/ \E array \in Arrays : DoFragmentFromArray(array)
  \/ \E d \in Docs, from \in 0..MaxPos, to \in 0..MaxPos, slice \in Slices :
       from <= to /\ DoReplace(d, from, to, slice)

FragmentInit == StepStart({NilNode}) /\ CacheStart /\ FragStart

SpecFragment == FragmentInit /\ [][NextFragment]_vars

RECURSIVE TextJoined(_)
\* No two neighbours in f, nor in the content of a node below f, are text
\* nodes with the same marks.
TextJoined(f) ==
  /\ \A i \in 1..(Len(f.content) - 1) :
       ~(/\ IsText(f.content[i])
         /\ IsText(f.content[i + 1])
         /\ SameMarkSet(f.content[i].marks, f.content[i + 1].marks))
  /\ \A i \in 1..Len(f.content) : TextJoined(f.content[i].content)

RECURSIVE SizeCounted(_)
\* The Size field of f, and of every fragment below f, is the sum of the
\* NodeSize of the children.
SizeCounted(f) ==
  /\ f.size = SumNodeSize(f.content, 1)
  /\ \A i \in 1..Len(f.content) : SizeCounted(f.content[i].content)

\* Every non-text non-leaf node of f is two tokens larger than its children.
RECURSIVE NodeSizeCounted(_)
NodeSizeCounted(f) ==
  \A i \in 1..Len(f.content) :
    LET child == f.content[i]
    IN /\ (~IsText(child) /\ ~IsLeaf(child))
            => NodeSize(child) = 2 + SumNodeSize(child.content.content, 1)
       /\ NodeSizeCounted(child.content)

\* C6: no fragment that Append, Cut, ReplaceChild, FragmentFromArray or
\* replace makes of fragments without adjacent text nodes of equal marks has
\* two adjacent text children with identical mark sets.
TextMerging ==
  (fop # "init" /\ IsOk(fout)) => TextJoined(fout.val)

\* C7: the Size of every fragment that Append, Cut, ReplaceChild,
\* FragmentFromArray or replace produces is the sum of the NodeSize of its
\* children, and the size of every non-text non-leaf node in it is 2 plus
\* the sum of the sizes of its children.
SizeAccounting ==
  (fop # "init" /\ IsOk(fout)) => SizeCounted(fout.val) /\ NodeSizeCounted(fout.val)

\* ReplaceChild put a node of another size in the place of a child.
ChildOfOtherSizeReplaced ==
  /\ fop = "replaceChild"
  /\ NodeSize(fin[3]) # NodeSize(fin[1].content[fin[2] + 1])
  /\ fout.val.size # fin[1].size

\* The document that d.Replace returned: the root keeps type, attributes
\* and marks, fout holds its content.
Replaced == Copy(fin[1], fout.val)

\* Every node of document d that holds position pos, from the root down to
\* the parent of pos, has content its type accepts.
ValidAlong(d, pos) ==
  Let(resolvePos(d, pos), LAMBDA r :
     /\ IsOk(r)
     /\ \A depth \in 0..r.val.depth :
          ValidContent(RNode(r.val, depth).type, RNode(r.val, depth).content))

\* from and to of a replace lie in the same parent node, and the slice is
\* closed on both sides: the new content of that parent is the part before
\* from, the slice and the part after to.
FlatReplace ==
  Let(resolvePos(fin[1], fin[2]).val, LAMBDA rFrom :
  Let(resolvePos(fin[1], fin[3]).val, LAMBDA rTo :
     /\ fin[4].openStart = 0 /\ fin[4].openEnd = 0
     /\ rFrom.depth = rTo.depth
     /\ \A depth \in 0..rFrom.depth : Start(rFrom, depth) = Start(rTo, depth)))

FlatContent ==
  Let(resolvePos(fin[1], fin[2]).val, LAMBDA rFrom :
  Let(resolvePos(fin[1], fin[3]).val, LAMBDA rTo :
  LET parent == Parent(rFrom)
  IN FragmentAppend(
       FragmentAppend(FragmentCut(parent.content, 0, rFrom.parentOffset), fin[4].content),
       FragmentCutFrom(parent.content, rTo.parentOffset))))

\* C8: when Node.replace succeeds, every node it reassembled, that is every
\* ancestor of the replaced range and every node joined across an open side
\* of the slice (the nodes that hold the start and the end of the inserted
\* content in the new document), has content that validContent of its type
\* accepts; when the node that takes the slice would hold invalid content,
\* replace fails with "Invalid content for node X", X the type of that
\* node, and returns no document.
ValidationAtClose ==
  (fop = "replace" /\ fin[3] <= fin[1].content.size) =>
    /\ IsOk(fout) =>
         /\ ValidAlong(Replaced, fin[2])
         /\ ValidAlong(Replaced, fin[2] + SliceSize(fin[4]))
    /\ (FlatReplace /\ ~ValidContent(Parent(resolvePos(fin[1], fin[2]).val).type, FlatContent))
         => fout = Err("Invalid content for node "
                         \o Parent(resolvePos(fin[1], fin[2]).val).type)

\* A replace that joined a paragraph of the slice with the paragraph after
\* the range succeeded.
JoinedAcrossOpenSide ==
  /\ fop = "replace"
  /\ IsOk(fout)
  /\ fin[4].openEnd > 0
  /\ fin[4].content.size > 0

(***************************************************************************)
(* Claims about merging mark steps.                                        *)
(***************************************************************************)

\* C11: AddMarkStep.Merge and RemoveMarkStep.Merge return a step exactly
\* when the other step is of the same kind, carries an equal mark and its
\* range overlaps or touches the receiver's (a.from <= b.to and
\* a.to >= b.from); the step returned is of that kind and carries the mark
\* over [min(a.from, b.from), max(a.to, b.to)].  Otherwise nothing is
\* returned.
MarkMergeUnion ==
  (op = "merge" /\ prevStep.kind \in {"addMark", "removeMark"})
    => IF /\ step.kind = prevStep.kind
          /\ step.mark = prevStep.mark
          /\ prevStep.from <= step.to
          /\ prevStep.to >= step.from
       THEN /\ aux.val # NilStep
            /\ aux.val.kind = prevStep.kind
            /\ aux.val.mark = prevStep.mark
            /\ aux.val.from = Min(prevStep.from, step.from)
            /\ aux.val.to = Max(prevStep.to, step.to)
       ELSE aux.val = NilStep

\* Two AddMarkSteps with the same mark over ranges that touch were merged
\* into a step over a range longer than either.
TouchingMarkStepsMerged ==
  /\ op = "merge"
  /\ prevStep.kind = "addMark"
  /\ step.kind = "addMark"
  /\ prevStep.to = step.from
  /\ prevStep.from < prevStep.to
  /\ step.from < step.to
  /\ aux.val # NilStep

(***************************************************************************)
(* Steps from JSON.  A decoded JSON value is a record tagged by j: null,   *)
(* a bool, an int (a Go int, as ToJSON produces), a float64 (as            *)
(* encoding/json produces; v counts halves, so that 3 stands for 1.5), a   *)
(* string, or an object, a function from its keys to values.  The obj      *)
(* argument of the builders is such a function: a map[string]interface{}.  *)
(***************************************************************************)
JNull == [j |-> "null"]
JBool(b) == [j |-> "bool", bool |-> b]
JInt(i) == [j |-> "int", int |-> i]
JFloat(halves) == [j |-> "float", halves |-> halves]
JStr(s) == [j |-> "str", str |-> s]
JObj(o) == [j |-> "obj", obj |-> o]

\* obj[k]: the nil interface when the key is missing.
Get(obj, k) == IF k \in DOMAIN obj THEN obj[k] ELSE JNull

\* int(f) of a float64: truncation towards zero.
FloatToInt(halves) == IF halves >= 0 THEN halves \div 2 ELSE -((-halves) \div 2)

\* switch v := x.(type) { case int: ...; case float64: ... }
IsNumber(x) == x.j \in {"int", "float"}
NumberOf(x) ==
  CASE x.j = "int" -> x.int
    [] x.j = "float" -> FloatToInt(x.halves)
    [] OTHER -> 0

\* A map[string]interface{} kept as attrs: the pairs of the object, an int
\* or a string by its value, any other value as decoded.
AttrsFromJSON(o) ==
  { <<k, CASE o[k].j = "int" -> o[k].int
           [] o[k].j = "str" -> o[k].str
           [] OTHER -> o[k]>> : k \in DOMAIN o }

MarkFromJSON(raw) ==
  LET t == Get(raw, "type")
      attrs == Get(raw, "attrs")
  IN IF t.j = "str" /\ t.str \in MarkTypeNames
     THEN MarkTypeCreate(t.str, IF attrs.j = "obj" THEN AttrsFromJSON(attrs.obj) ELSE {})
     ELSE Err("There is no mark " \o (IF t.j = "str" THEN t.str ELSE "%!s(<nil>)")
              \o " in this schema")

JArr(a) == [j |-> "arr", arr |-> a]

\* The marks of a node object: those of its marks array, in order; the first
\* failure when a mark is not decoded.
RECURSIVE MarksFromJSON(_, _, _)
MarksFromJSON(arr, i, marks) ==
  IF i > Len(arr) THEN Ok(marks)
  ELSE IF arr[i].j # "obj" THEN Err("Invalid mark data")
  ELSE Let(MarkFromJSON(arr[i].obj), LAMBDA mark :
          IF ~IsOk(mark) THEN mark
          ELSE MarksFromJSON(arr, i + 1, Append(marks, mark.val)))

\* NodeFromJSON and FragmentFromJSON: a node object {type, attrs?, content?,
\* marks?, text?} is built through the schema, a text node from its text and
\* marks, another node by Create from attrs, content and marks; the content
\* is null (empty) or an array of node objects.
RECURSIVE NodeFromJSON(_)
RECURSIVE NodesFromJSON(_, _, _)
FragmentFromJSON(value) ==
  IF value = JNull THEN Ok(EmptyFragment)
  ELSE IF value.j # "arr" THEN Err("Invalid input for Fragment.fromJSON")
  ELSE Let(NodesFromJSON(value.arr, 1, <<>>), LAMBDA nodes :
          IF ~IsOk(nodes) THEN nodes ELSE Ok(FragmentFromArray(nodes.val)))

NodesFromJSON(arr, i, nodes) ==
  IF i > Len(arr) THEN Ok(nodes)
  ELSE Let(NodeFromJSON(arr[i]), LAMBDA nd :
          IF ~IsOk(nd) THEN nd
          ELSE NodesFromJSON(arr, i + 1, Append(nodes, nd.val)))

NodeFromJSON(value) ==
  IF value.j # "obj" THEN Err("Invalid input for Node.fromJSON")
  ELSE Let(MarksFromJSON(IF Get(value.obj, "marks").j = "arr"
                         THEN Get(value.obj, "marks").arr ELSE <<>>, 1, <<>>), LAMBDA marks :
       IF ~IsOk(marks) THEN marks
       ELSE IF Get(value.obj, "type") = JStr("text")
       THEN IF Get(value.obj, "text").j # "str" THEN Err("Invalid text node in JSON")
            ELSE Ok(NewTextNode("text", {}, Get(value.obj, "text").str, marks.val))
       ELSE IF Get(value.obj, "type").j # "str"
               \/ Get(value.obj, "type").str \notin NodeTypeNames
       THEN Err("There is no node type in this schema")
       ELSE Let(FragmentFromJSON(Get(value.obj, "content")), LAMBDA content :
               IF ~IsOk(content) THEN content
               ELSE NodeTypeCreate(Get(value.obj, "type").str,
                                   IF Get(value.obj, "attrs").j = "obj"
                                   THEN AttrsFromJSON(Get(value.obj, "attrs").obj) ELSE {},
                                   content.val, marks.val)))

\* SliceFromJSON; a raw that is no object arrives as a nil map, of which
\* every key is missing.
SliceFromJSON(raw) ==
  LET data == IF raw.j = "obj" THEN raw.obj ELSE <<>>
      fragment == FragmentFromJSON(Get(data, "content"))
  IN IF ~IsOk(fragment) THEN fragment
     ELSE Ok(NewSlice(fragment.val, NumberOf(Get(data, "openStart")),
                      NumberOf(Get(data, "openEnd"))))

StructureOf(obj) == Get(obj, "structure").j = "bool" /\ Get(obj, "structure").bool

ReplaceStepFromJSON(obj) ==
  IF ~IsNumber(Get(obj, "from")) \/ ~IsNumber(Get(obj, "to"))
  THEN Err("Invalid input for ReplaceStep.fromJSON")
  ELSE LET slice == SliceFromJSON(Get(obj, "slice"))
       IN IF ~IsOk(slice) THEN slice
          ELSE Ok(NewReplaceStep(NumberOf(Get(obj, "from")), NumberOf(Get(obj, "to")),
                                 slice.val, StructureOf(obj)))

TableSortStepFromJSON(obj) == Ok(NewReplaceStep(0, 0, EmptySlice, FALSE))

ReplaceAroundStepFromJSON(obj) ==
  IF \E k \in {"from", "to", "gapFrom", "gapTo", "insert"} : ~IsNumber(Get(obj, k))
  THEN Err("Invalid input for ReplaceAroundStep.fromJSON")
  ELSE LET slice == SliceFromJSON(Get(obj, "slice"))
       IN IF ~IsOk(slice) THEN slice
          ELSE Ok(NewReplaceAroundStep(
                    NumberOf(Get(obj, "from")), NumberOf(Get(obj, "to")),
                    NumberOf(Get(obj, "gapFrom")), NumberOf(Get(obj, "gapTo")),
                    slice.val, NumberOf(Get(obj, "insert")), StructureOf(obj)))

AddMarkStepFromJSON(obj) ==
  IF Get(obj, "mark").j # "obj" THEN Err("Invalid input for AddMarkStep.fromJSON")
  ELSE LET mark == MarkFromJSON(Get(obj, "mark").obj)
       IN IF ~IsOk(mark) THEN mark
          ELSE Ok(NewAddMarkStep(NumberOf(Get(obj, "from")), NumberOf(Get(obj, "to")),
                                 mark.val))

RemoveMarkStepFromJSON(obj) ==
  IF Get(obj, "mark").j # "obj" THEN Err("Invalid input for RemoveMarkStep.fromJSON")
  ELSE LET mark == MarkFromJSON(Get(obj, "mark").obj)
       IN IF ~IsOk(mark) THEN mark
          ELSE Ok(NewRemoveMarkStep(NumberOf(Get(obj, "from")), NumberOf(Get(obj, "to")),
                                    mark.val))

SetAttrsStepFromJSON(obj) ==
  IF Get(obj, "attrs").j # "obj" THEN Err("Invalid input for SetAttrsStep.fromJSON")
  ELSE Ok(NewSetAttrsStep(NumberOf(Get(obj, "pos")), AttrsFromJSON(Get(obj, "attrs").obj)))

\* The registry: the builder registered under every stepType.
stepsByID ==
  [addMark |-> "AddMarkStepFromJSON",
   removeMark |-> "RemoveMarkStepFromJSON",
   replace |-> "ReplaceStepFromJSON",
   replaceAround |-> "ReplaceAroundStepFromJSON"]

stepBuilder(builder, obj) ==
  CASE builder = "AddMarkStepFromJSON" -> AddMarkStepFromJSON(obj)
    [] builder = "RemoveMarkStepFromJSON" -> RemoveMarkStepFromJSON(obj)
    [] builder = "ReplaceStepFromJSON" -> ReplaceStepFromJSON(obj)
    [] builder = "ReplaceAroundStepFromJSON" -> ReplaceAroundStepFromJSON(obj)
    [] builder = "SetAttrsStepFromJSON" -> SetAttrsStepFromJSON(obj)
    [] builder = "TableSortStepFromJSON" -> TableSortStepFromJSON(obj)

StepFromJSON(obj) ==
  IF DOMAIN obj = {} THEN Err("Invalid input from Step.fromJSON")
  ELSE LET stepType == Get(obj, "stepType")
       IN IF stepType.j # "str" THEN Err("Invalid input from Step.fromJSON")
          ELSE IF stepType.str \notin DOMAIN stepsByID
               THEN Err("No step " \o stepType.str \o " defined")
               ELSE stepBuilder(stepsByID[stepType.str], obj)

(***************************************************************************)
(* A client that decodes a step from a JSON object and applies it.  The    *)
(* objects carry any of the keys of the five step shapes, each missing, of *)
(* the expected type or of another type.                                   *)
(***************************************************************************)
JAbsent == [j |-> "absent"]

\* The object with the given key-value pairs, those of a missing value left
\* out.
Obj(pairs) ==
  LET present == { p \in pairs : p[2] # JAbsent }
  IN [k \in { p[1] : p \in present } |-> (CHOOSE p \in present : p[1] = k)[2]]

StepKinds == {"replace", "replaceAround", "addMark", "removeMark", "setAttrs"}

StepTypeValues ==
  { JStr(k) : k \in StepKinds \cup {"tableSort", "unknown", ""} } \cup {JAbsent, JInt(1)}

StepObjects ==
  { Obj({ <<"stepType", st>>, <<"from", f>>, <<"pos", f>>, <<"to", t>>,
          <<"gapFrom", g>>, <<"gapTo", g>>, <<"insert", IF g = JAbsent THEN g ELSE JInt(0)>>,
          <<"slice", sl>>, <<"structure", b>>, <<"mark", m>>, <<"attrs", a>> }) :
      st \in StepTypeValues,
      f \in {JAbsent, JInt(0), JFloat(3), JStr("1")},
      t \in {JAbsent, JInt(2), JFloat(4)},
      g \in {JAbsent, JInt(1)},
      sl \in {JAbsent, JObj(Obj({<<"openStart", JInt(0)>>})), JStr("x")},
      b \in {JAbsent, JBool(TRUE)},
      m \in {JAbsent, JObj(Obj({<<"type", JStr("em")>>})), JObj(Obj({<<"type", JStr("underline")>>}))},
      a \in {JAbsent, JObj(Obj({<<"level", JInt(2)>>}))} }

\* step, err := StepFromJSON(schema, obj)
DoStepFromJSON(obj) ==
  /\ fop = "init"
  /\ fop' = "stepFromJSON"
  /\ fin' = <<obj>>
  /\ fout' = StepFromJSON(obj)
  /\ UNCHANGED <<stepVars, cacheVars>>

\* step.Apply(doc) with the step decoded.
ApplyDecoded ==
  /\ fop = "stepFromJSON"
  /\ IsOk(fout)
  /\ Apply(fout.val, 1)

NextJSON ==
  \/ \E obj \in StepObjects : DoStepFromJSON(obj)
  \/ ApplyDecoded

SpecJSON == StepInit /\ [][NextJSON]_vars

\* An object of the shape of its step type: the positions are numbers, a
\* slice when present is an object, a structure flag when present is a
\* bool, the mark is an object naming a mark type of the schema, and attrs
\* is an object.
WellFormed(obj) ==
  LET X == Get(obj, "stepType").str
      numbers(keys) == \A k \in keys : IsNumber(Get(obj, k))
      sliced == /\ Get(obj, "slice").j \in {"null", "obj"}
                /\ Get(obj, "structure").j \in {"null", "bool"}
  IN CASE X = "replace" -> numbers({"from", "to"}) /\ sliced
       [] X = "replaceAround" ->
            numbers({"from", "to", "gapFrom", "gapTo", "insert"}) /\ sliced
       [] X \in {"addMark", "removeMark"} ->
            /\ numbers({"from", "to"})
            /\ Get(obj, "mark").j = "obj"
            /\ Get(Get(obj, "mark").obj, "type").j = "str"
            /\ Get(Get(obj, "mark").obj, "type").str \in MarkTypeNames
       [] X = "setAttrs" -> numbers({"pos"}) /\ Get(obj, "attrs").j = "obj"
       [] OTHER -> FALSE

\* C12: StepFromJSON decodes a well-formed object of stepType "replace",
\* "replaceAround", "addMark", "removeMark" or "setAttrs" into a step of
\* that variant, decodes an object of stepType "tableSort" into a step that
\* leaves every document unchanged, and fails with "No step X defined" for
\* a stepType string X that names none of these.
StepRegistryComplete ==
  (fop = "stepFromJSON" /\ Get(fin[1], "stepType").j = "str")
    => LET X == Get(fin[1], "stepType").str
       IN /\ (X \in StepKinds /\ WellFormed(fin[1]))
               => IsOk(fout) /\ fout.val.kind = X
          /\ X = "tableSort"
               => /\ IsOk(fout)
                  /\ op = "apply" => IsOk(out) /\ out.val = origDoc
          /\ X \notin StepKinds \cup {"tableSort"}
               => fout = Err("No step " \o X \o " defined")

\* An object of an unregistered stepType was refused.
UnknownStepTypeRefused ==
  /\ fop = "stepFromJSON"
  /\ Get(fin[1], "stepType") = JStr("unknown")
  /\ fout = Err("No step unknown defined")

(***************************************************************************)
(* Text.  A Go string holds the UTF-8 encoding of its characters, and len  *)
(* counts its bytes.  A character is its code point; a byte is named by    *)
(* its letter when it is one of a to z and by its two hex digits           *)
(* otherwise.                                                              *)
(***************************************************************************)
Letters == <<"a", "b", "c", "d", "e", "f", "g", "h", "i", "j", "k", "l", "m",
             "n", "o", "p", "q", "r", "s", "t", "u", "v", "w", "x", "y", "z">>
HexDigits == <<"0", "1", "2", "3", "4", "5", "6", "7", "8", "9",
               "a", "b", "c", "d", "e", "f">>

ByteName(b) ==
  IF 97 <= b /\ b <= 122 THEN Letters[b - 96]
  ELSE HexDigits[(b \div 16) + 1] \o HexDigits[(b % 16) + 1]

\* The bytes of one character in UTF-8.
EncodeRune(r) ==
  IF r < 128 THEN <<ByteName(r)>>
  ELSE IF r < 2048
  THEN <<ByteName(192 + (r \div 64)), ByteName(128 + (r % 64))>>
  ELSE IF r < 65536
  THEN <<ByteName(224 + (r \div 4096)), ByteName(128 + ((r \div 64) % 64)),
         ByteName(128 + (r % 64))>>
  ELSE <<ByteName(240 + (r \div 262144)), ByteName(128 + ((r \div 4096) % 64)),
         ByteName(128 + ((r \div 64) % 64)), ByteName(128 + (r % 64))>>

\* The string of a sequence of characters.
RECURSIVE GoString(_)
GoString(chars) ==
  IF chars = <<>> THEN <<>> ELSE EncodeRune(Head(chars)) \o GoString(Tail(chars))

\* Schema.Text without marks.
SchemaText(text) == NewTextNode("text", DefaultAttrs("text"), text, NoMarks)

\* The number of UTF-16 code units of a sequence of characters: one for a
\* character of the Basic Multilingual Plane, two for any other.
RECURSIVE utf16CodeUnits(_)
utf16CodeUnits(chars) ==
  IF chars = <<>> THEN 0
  ELSE (IF Head(chars) < 65536 THEN 1 ELSE 2) + utf16CodeUnits(Tail(chars))

\* The characters a, e acute, o circumflex, a CJK ideograph and an emoji.
Runes == {97, 233, 244, 20040, 128101}

RECURSIVE SeqsUpTo(_, _)
SeqsUpTo(S, len) ==
  IF len = 0 THEN {<<>>}
  ELSE LET shorter == SeqsUpTo(S, len - 1)
       IN shorter \cup { Append(s, x) : s \in shorter, x \in S }

\* Texts of one to MaxLen characters.
Texts == SeqsUpTo(Runes, MaxLen) \ {<<>>}

\* node := schema.Text(text)
DoText(chars) ==
  /\ fop = "init"
  /\ fop' = "text"
  /\ fin' = <<chars>>
  /\ fout' = Ok(SchemaText(GoString(chars)))
  /\ UNCHANGED <<stepVars, cacheVars>>

\* p := paragraph.Create(nil, schema.Text(text), nil)
DoParagraph(chars) ==
  /\ fop = "init"
  /\ fop' = "paragraph"
  /\ fin' = <<chars>>
  /\ fout' = NodeTypeCreate("paragraph", {},
                            FragmentFromNode(SchemaText(GoString(chars))), NoMarks)
  /\ UNCHANGED <<stepVars, cacheVars>>

NextText ==
  \/ \E chars \in Texts : DoText(chars)
  \/ \E chars \in Texts : DoParagraph(chars)

SpecText == FragmentInit /\ [][NextText]_vars

\* C13: the nodeSize of a text node is the number of UTF-16 code units of
\* its text, 1 for every character of the Basic Multilingual Plane and 2
\* for every other, and a node holding the text is larger by its two
\* tokens.
TextSizeUTF16 ==
  /\ fop = "text" => NodeSize(fout.val) = utf16CodeUnits(fin[1])
  /\ fop = "paragraph" => NodeSize(fout.val) = 2 + utf16CodeUnits(fin[1])

\* A text with a character that takes more than one byte was built.
NonASCIITextBuilt ==
  /\ fop = "text"
  /\ \E i \in 1..Len(fin[1]) : fin[1][i] >= 128

(***************************************************************************)
(* Claims about the eviction of the resolve cache.                         *)
(***************************************************************************)

\* The key of the call is in a slot of the cache.
InCache(cache, key) ==
  \E i \in 1..Len(cache) : cache[i].doc = key.doc /\ cache[i].pos.pos = key.pos

\* C14: the cache has 12 slots at all times; a call for a key that is in no
\* slot and resolves writes the entry into the slot at the insertion index
\* and advances the index by one modulo 12; a call that hits and a call
\* whose resolution fails leave the slots and the index as they are.  The
\* index therefore is the number of insertions modulo 12, and the slot a
\* miss overwrites holds the entry of the 12th insertion before it.
RoundRobinEviction ==
  [][ /\ Len(resolveCache') = resolveCacheSize
      /\ IF ~InCache(resolveCache, call'.key) /\ IsOk(call'.ret)
         THEN /\ resolveCache'
                   = [resolveCache EXCEPT ![resolveCachePos + 1]
                        = [doc |-> call'.key.doc, pos |-> call'.ret.val]]
              /\ resolveCachePos' = (resolveCachePos + 1) % resolveCacheSize
              /\ inserts' = inserts + 1
         ELSE UNCHANGED <<resolveCache, resolveCachePos, inserts>>
      /\ resolveCachePos' = inserts' % resolveCacheSize ]_vars

\* The 13th insertion has overwritten the first slot: the entry of the first
\* insertion is in the cache no more.
FirstEntryEvicted ==
  /\ inserts = resolveCacheSize + 1
  /\ ~call.hit
  /\ IsOk(call.ret)
  /\ resolveCache[1] = [doc |-> call.key.doc, pos |-> call.ret.val]
  /\ ~InCache(resolveCache, KeyAt(Len(CacheDocs) + 1))

\* ---------------------------------------------------------------------
\* Mark sets built by Mark.AddToSet
\* ---------------------------------------------------------------------

\* The marks of the schema: one of every type, two where the type has an
\* attribute with a default.
Marks ==
  { MarkTypeCreate(mt, {}).val : mt \in {"link", "em", "strong", "code", "remark",
                                          "user", "strong2"} }
    \cup { MarkTypeCreate(mt, {<<a, "1">>}).val :
             mt \in {"remark", "user", "comment"}, a \in {"id"} }
    \cup { MarkTypeCreate("link", {<<"href", "1">>}).val }

\* set = m.AddToSet(set), from Mark.None on.
DoAddToSet(m) ==
  /\ fop \in {"init", "addToSet"}
  /\ Let(IF fop = "init" THEN NoMarks ELSE fout, LAMBDA set :
       /\ fin' = <<m, set>>
       /\ fout' = AddToSet(m, set))
  /\ fop' = "addToSet"
  /\ UNCHANGED <<stepVars, cacheVars>>

NextMarks == \E m \in Marks : DoAddToSet(m)

SpecMarks == FragmentInit /\ [][NextMarks]_vars

SortedByRank(set) ==
  \A i \in 1..Len(set) - 1 : Rank(set[i].type) <= Rank(set[i + 1].type)

\* The marks of the set the type of m does not exclude, and m put after
\* those of them with a rank up to its own.
InsertByRank(m, set) ==
  Let(SelectSeq(set, LAMBDA other : ~Excludes(m.type, other.type)), LAMBDA kept :
    SelectSeq(kept, LAMBDA other : Rank(other.type) <= Rank(m.type))
      \o <<m>>
      \o SelectSeq(kept, LAMBDA other : Rank(other.type) > Rank(m.type)))

\* C15: m.AddToSet(set), on a set sorted by rank, returns the set as it is
\* when a mark equal to m is in it or when a mark of it excludes the type of
\* m and is not excluded by it; otherwise it returns the marks the type of m
\* does not exclude with m inserted by its rank, sorted by rank again.
AddToSetContract ==
  fop = "addToSet" =>
    /\ SortedByRank(fin[2])
    /\ IF \/ \E i \in DOMAIN fin[2] : MarkEq(fin[1], fin[2][i])
          \/ \E i \in DOMAIN fin[2] :
               /\ Excludes(fin[2][i].type, fin[1].type)
               /\ ~Excludes(fin[1].type, fin[2][i].type)
       THEN fout = fin[2]
       ELSE /\ fout = InsertByRank(fin[1], fin[2])
            /\ SortedByRank(fout)
            /\ \A i \in DOMAIN fout :
                 fout[i] # fin[1] => ~Excludes(fin[1].type, fout[i].type)

\* A mark has replaced the mark of its type with another attribute, before
\* the marks of a higher rank.
MarkReplacedInPlace ==
  /\ fop = "addToSet"
  /\ Len(fin[2]) = 3 /\ Len(fout) = 3
  /\ fin[2][1].type = fin[1].type /\ fin[2][1] # fin[1]
  /\ fout = [fin[2] EXCEPT ![1] = fin[1]]

\* ---------------------------------------------------------------------
\* Fragment.findIndex
\* ---------------------------------------------------------------------

Rounds == {-1, 0, 1}

\* index, offset, err := f.findIndex(pos, round)
DoFindIndex(f, pos, round) ==
  /\ fop = "init"
  /\ fop' = "findIndex"
  /\ fin' = <<f, pos, round>>
  /\ fout' = findIndexRound(f, pos, round)
  /\ UNCHANGED <<stepVars, cacheVars>>

NextFindIndex ==
  \E f \in Fragments : \E pos \in -1..(f.size + 1), round \in Rounds :
    DoFindIndex(f, pos, round)

SpecFindIndex == FragmentInit /\ [][NextFindIndex]_vars

\* The offset at which the child of index k (from 0) starts; for k the
\* number of children, the size of the fragment.
RECURSIVE ChildStart(_, _)
ChildStart(f, k) ==
  IF k = 0 THEN 0 ELSE ChildStart(f, k - 1) + NodeSize(f.content[k])

\* C16 as stated: findIndex fails for a position below 0 or beyond the size,
\* and at the boundary between two children it returns the index of the
\* earlier one for round < 0 and of the later one for round >= 0.
FindIndexBoundaryByRound ==
  fop = "findIndex" =>
    IF fin[2] < 0 \/ fin[2] > fin[1].size THEN fout.tag = "err"
    ELSE /\ IsOk(fout)
         /\ \A k \in 1..(Len(fin[1].content) - 1) :
              ChildStart(fin[1], k) = fin[2] =>
                fout.val.index = IF fin[3] < 0 THEN k - 1 ELSE k

\* C16 amended: findIndex fails for a position below 0 or beyond the size;
\* at a position where a child starts or the fragment ends it returns the
\* index of that start and the position itself, whatever round is; inside a
\* child it returns the index and start of that child for round <= 0, and
\* the next index and the end of that child for round > 0.
FindIndexContract ==
  fop = "findIndex" =>
    IF fin[2] < 0 \/ fin[2] > fin[1].size THEN fout.tag = "err"
    ELSE /\ IsOk(fout)
         /\ \A k \in 0..Len(fin[1].content) :
              /\ ChildStart(fin[1], k) = fin[2] =>
                   fout.val = [index |-> k, offset |-> fin[2]]
              /\ (k < Len(fin[1].content) /\ ChildStart(fin[1], k) < fin[2]
                    /\ fin[2] < ChildStart(fin[1], k + 1)) =>
                   fout.val = IF fin[3] > 0
                              THEN [index |-> k + 1, offset |-> ChildStart(fin[1], k + 1)]
                              ELSE [index |-> k, offset |-> ChildStart(fin[1], k)]

\* findIndex was called with round -1 at the boundary between two children
\* and returned the index of the later one.
BoundaryFoundRoundingDown ==
  /\ fop = "findIndex"
  /\ fin[3] < 0
  /\ Len(fin[1].content) = 2
  /\ fin[2] = ChildStart(fin[1], 1)
  /\ fout = Ok([index |-> 1, offset |-> fin[2]])

\* ---------------------------------------------------------------------
\* Creating nodes and marks through their types
\* ---------------------------------------------------------------------

AttrValues ==
  { {}, {<<"level", 2>>}, {<<"level", 3>>}, {<<"src", "a.png">>}, {<<"id", "1">>},
    {<<"id", "2">>}, {<<"href", "/">>}, {<<"id", "1">>, <<"href", "/">>} }

\* node, err := schema.Nodes[t].Create(attrs, nil, nil)
DoNodeCreate(t, attrs) ==
  /\ fop = "init"
  /\ fop' = "nodeCreate"
  /\ fin' = <<t, attrs>>
  /\ fout' = NodeTypeCreate(t, attrs, EmptyFragment, NoMarks)
  /\ UNCHANGED <<stepVars, cacheVars>>

\* mark := schema.Marks[mt].Create(attrs)
DoMarkCreate(mt, attrs) ==
  /\ fop = "init"
  /\ fop' = "markCreate"
  /\ fin' = <<mt, attrs>>
  /\ fout' = MarkTypeCreate(mt, attrs)
  /\ UNCHANGED <<stepVars, cacheVars>>

NextCreate ==
  \/ \E t \in NodeTypeNames, attrs \in AttrValues : DoNodeCreate(t, attrs)
  \/ \E mt \in MarkTypeNames, attrs \in AttrValues : DoMarkCreate(mt, attrs)

SpecCreate == FragmentInit /\ [][NextCreate]_vars

\* Whether an interface{} is nil.
IsNil(v) == ToString(v) = ToString(GoNil)

\* An AttributeSpec that gives no default: none at all, or one whose Default
\* was left unset.
GivesNoDefault(options) == options.nil \/ IsNil(options.Default)

\* C17: creating a node or a mark without a value for an attribute whose
\* AttributeSpec gives no default returns the error "No value supplied for
\* attribute X", and does not panic.
RequiredAttrsRefused ==
  fop \in {"nodeCreate", "markCreate"} =>
    \A name \in DOMAIN AttributeSpecs(fin[1]) :
      (GivesNoDefault(AttributeSpecs(fin[1])[name]) /\ ~HasAttr(fin[2], name))
        => fout = Err("No value supplied for attribute " \o name)

\* A node was asked of a type with an attribute without AttributeSpec and
\* without a value for it, and the creation panicked.
RequiredAttrPanicked ==
  /\ fop = "nodeCreate"
  /\ fin = <<"mention", {}>>
  /\ fout = Panic("No value supplied for attribute id")

(***************************************************************************)
(* Content expressions: parseContentMatch of model/content.go.             *)
(*                                                                         *)
(* A string is the sequence of its lexemes: a word (a run of letters,      *)
(* digits and _), a punctuation character, or a space.  A token is the     *)
(* sequence of the lexemes of one field of the string.                     *)
(***************************************************************************)
Space == " "
Punctuation == {"(", ")", "|", "+", "*", "?", "{", ",", "}"}

\* The string of a sequence of lexemes.
RECURSIVE GoStringOf(_)
GoStringOf(lexemes) ==
  IF lexemes = <<>> THEN "" ELSE Head(lexemes) \o GoStringOf(Tail(lexemes))

\* %q of a string without characters to escape.
Quote(lexemes) == "\"" \o GoStringOf(lexemes) \o "\""

RECURSIVE FieldsLoop(_, _, _)
FieldsLoop(str, field, fields) ==
  IF str = <<>> THEN IF field = <<>> THEN fields ELSE Append(fields, field)
  ELSE IF Head(str) = Space
  THEN FieldsLoop(Tail(str), <<>>, IF field = <<>> THEN fields ELSE Append(fields, field))
  ELSE FieldsLoop(Tail(str), Append(field, Head(str)), fields)

\* strings.Fields
Fields(str) == FieldsLoop(str, <<>>, <<>>)

\* newTokenStream; no field is empty.  nodeTypes is the map of the node
\* types, as the sequence in which a range over it yields them; inline is
\* "nil" until the first name is parsed.
newTokenStream(str, nodeTypes) ==
  [str |-> str, nodeTypes |-> nodeTypes, inline |-> "nil", pos |-> 0,
   tokens |-> Fields(str)]

\* tokenStream.next: whether there is a token, and the token.
HasNext(ts) == ts.pos < Len(ts.tokens)
NextToken(ts) == ts.tokens[ts.pos + 1]

\* tokenStream.eat: the result, and the stream after it.  At the end of the
\* stream every token is eaten.
Eats(ts, tok) == ~(HasNext(ts) /\ NextToken(ts) # <<tok>>)
Advanced(ts) == [ts EXCEPT !.pos = @ + 1]

\* tokenStream.err
StreamErr(ts, msg) == Err(msg \o " (in content expression " \o Quote(ts.str) \o ")")

\* A call that does not return: a loop or a recursion without end.
Diverges(where) == [tag |-> "diverges", msg |-> where]

\* A parsed expression and the stream after it.
Parsed(expr, ts) == [tag |-> "ok", val |-> expr, stream |-> ts]

\* exprType; Expr is <<>> for nil, Value is "" for nil.
NewExpr(type, exprs, expr, min, max, value) ==
  [Type |-> type, Exprs |-> exprs, Expr |-> expr, Min |-> min, Max |-> max,
   Value |-> value]
NameExpr(typ) == NewExpr("name", <<>>, <<>>, 0, 0, typ)
ChoiceExpr(exprs) == NewExpr("choice", exprs, <<>>, 0, 0, "")
SeqExpr(exprs) == NewExpr("seq", exprs, <<>>, 0, 0, "")
UnaryExpr(type, expr) == NewExpr(type, <<>>, <<expr>>, 0, 0, "")
RangeExpr(min, max, expr) == NewExpr("range", <<>>, <<expr>>, min, max, "")

\* NodeType.Groups
Groups(t) ==
  (IF \E i \in DOMAIN BlockGroup : BlockGroup[i] = t THEN {"block"} ELSE {})
    \cup (IF \E i \in DOMAIN InlineGroup : InlineGroup[i] = t THEN {"inline"} ELSE {})

isWordCharacters(token) == \A i \in DOMAIN token : token[i] \notin Punctuation

\* strconv.Atoi of a token, for the numbers up to 4.
Digits == <<"0", "1", "2", "3", "4">>
Atoi(token) ==
  IF Len(token) = 1 /\ \E d \in DOMAIN Digits : Digits[d] = token[1]
  THEN Ok((CHOOSE d \in DOMAIN Digits : Digits[d] = token[1]) - 1)
  ELSE IF Len(token) = 2 /\ token[1] = "+" /\ \E d \in DOMAIN Digits : Digits[d] = token[2]
  THEN Ok((CHOOSE d \in DOMAIN Digits : Digits[d] = token[2]) - 1)
  ELSE Err("invalid syntax")

\* parseNum: the stream stays where it is.
parseNum(ts) ==
  IF ~HasNext(ts) THEN StreamErr(ts, "Expected number, got nil")
  ELSE IF ~IsOk(Atoi(NextToken(ts)))
  THEN StreamErr(ts, "Expected number, got " \o Quote(NextToken(ts)))
  ELSE Atoi(NextToken(ts))

\* parseExprRange
parseExprRange(ts, expr) ==
  Let(parseNum(ts), LAMBDA min :
    IF ~IsOk(min) THEN min
    ELSE Let(IF ~Eats(ts, ",") THEN Parsed(min.val, ts)
             ELSE IF HasNext(Advanced(ts)) /\ NextToken(Advanced(ts)) # <<"}">>
             THEN Let(parseNum(Advanced(ts)), LAMBDA max :
                    IF ~IsOk(max) THEN max ELSE Parsed(max.val, Advanced(ts)))
             ELSE Parsed(-1, Advanced(ts)),
         LAMBDA max :
           IF ~IsOk(max) THEN max
           ELSE IF ~Eats(max.stream, "}") THEN StreamErr(ts, "Unclosed braced range")
           ELSE Parsed(RangeExpr(min.val, max.val, expr), Advanced(max.stream))))

\* resolveName: the type of that name, or else the types of that group in
\* the order of the range over the map.
resolveName(ts, name) ==
  IF name \in NodeTypeNames THEN Ok(<<name>>)
  ELSE Let(SelectSeq(ts.nodeTypes, LAMBDA typ : name \in Groups(typ)), LAMBDA result :
         IF Len(result) = 0
         THEN StreamErr(ts, "No node or type " \o Quote(<<name>>) \o " found")
         ELSE Ok(result))

RECURSIVE NameExprs(_, _, _, _)
\* The loop of parseExprAtom over the types of a name.
NameExprs(ts, types, i, exprs) ==
  IF i > Len(types) THEN Parsed(exprs, ts)
  ELSE Let(IF SpecInline(types[i]) THEN "true" ELSE "false", LAMBDA inline :
         IF ts.inline = "nil"
         THEN NameExprs([ts EXCEPT !.inline = inline], types, i + 1,
                        Append(exprs, NameExpr(types[i])))
         ELSE IF ts.inline # inline THEN StreamErr(ts, "Mixing inline and block content")
         ELSE NameExprs(ts, types, i + 1, Append(exprs, NameExpr(types[i]))))

RECURSIVE parseExpr(_)
RECURSIVE parseExprLoop(_, _)
RECURSIVE parseExprSeq(_)
RECURSIVE parseExprSeqLoop(_, _)
RECURSIVE parseExprSubscript(_)
RECURSIVE parseExprSubscriptLoop(_, _)
RECURSIVE parseExprAtom(_)

\* parseExprAtom.  At the end of the stream eat("(") succeeds, and the
\* parseExpr it calls comes back to parseExprAtom at the end of the stream.
parseExprAtom(ts) ==
  IF ~HasNext(ts) THEN Diverges("parseExprAtom")
  ELSE IF Eats(ts, "(")
  THEN Let(parseExpr(Advanced(ts)), LAMBDA expr :
         IF ~IsOk(expr) THEN expr
         ELSE IF ~Eats(expr.stream, ")") THEN StreamErr(ts, "Missing closing paren")
         ELSE Parsed(expr.val, Advanced(expr.stream)))
  ELSE IF isWordCharacters(NextToken(ts))
  THEN Let(resolveName(ts, GoStringOf(NextToken(ts))), LAMBDA types :
         IF ~IsOk(types) THEN types
         ELSE Let(NameExprs(ts, types.val, 1, <<>>), LAMBDA exprs :
                IF ~IsOk(exprs) THEN exprs
                ELSE Parsed(IF Len(exprs.val) = 1 THEN exprs.val[1]
                            ELSE ChoiceExpr(exprs.val),
                            Advanced(exprs.stream))))
  ELSE StreamErr(ts, "Unexpected token " \o Quote(NextToken(ts)))

\* The loop of parseExprSubscript.  At the end of the stream eat("+")
\* succeeds in every iteration, and the loop has no other way out.
parseExprSubscriptLoop(ts, expr) ==
  IF ~HasNext(ts) THEN Diverges("parseExprSubscript")
  ELSE IF Eats(ts, "+") THEN parseExprSubscriptLoop(Advanced(ts), UnaryExpr("plus", expr))
  ELSE IF Eats(ts, "*") THEN parseExprSubscriptLoop(Advanced(ts), UnaryExpr("star", expr))
  ELSE IF Eats(ts, "?") THEN parseExprSubscriptLoop(Advanced(ts), UnaryExpr("opt", expr))
  ELSE IF Eats(ts, "{")
  THEN Let(parseExprRange(Advanced(ts), expr), LAMBDA range :
         IF ~IsOk(range) THEN range
         ELSE parseExprSubscriptLoop(range.stream, range.val))
  ELSE Parsed(expr, ts)

parseExprSubscript(ts) ==
  Let(parseExprAtom(ts), LAMBDA expr :
    IF ~IsOk(expr) THEN expr ELSE parseExprSubscriptLoop(expr.stream, expr.val))

\* The loop of parseExprSeq: it ends before a token other than ")" and "|".
parseExprSeqLoop(ts, exprs) ==
  Let(parseExprSubscript(ts), LAMBDA sub :
    IF ~IsOk(sub) THEN sub
    ELSE IF HasNext(sub.stream) /\ NextToken(sub.stream) # <<")">>
            /\ NextToken(sub.stream) # <<"|">>
    THEN Parsed(IF Len(exprs) = 0 THEN sub.val ELSE SeqExpr(Append(exprs, sub.val)),
                sub.stream)
    ELSE parseExprSeqLoop(sub.stream, Append(exprs, sub.val)))

parseExprSeq(ts) == parseExprSeqLoop(ts, <<>>)

\* The loop of parseExpr
parseExprLoop(ts, exprs) ==
  Let(parseExprSeq(ts), LAMBDA seq :
    IF ~IsOk(seq) THEN seq
    ELSE IF Eats(seq.stream, "|")
    THEN parseExprLoop(Advanced(seq.stream), Append(exprs, seq.val))
    ELSE Parsed(IF Len(exprs) = 0 THEN seq.val ELSE ChoiceExpr(Append(exprs, seq.val)),
                seq.stream))

parseExpr(ts) == parseExprLoop(ts, <<>>)

\* Continues with the value of a result that is one, and is the result
\* otherwise.
Then(r, Op(_)) == IF ~IsOk(r) THEN r ELSE Op(r.val)

\* The closures node and edge of nfa.  The NFA is the sequence of its
\* states, a state the sequence of its edges; term is "" for nil.  The
\* states are counted from 0.
node(states) == Append(states, <<>>)
edge(states, from, to, term) ==
  IF from >= Len(states)
  THEN Panic("runtime error: index out of range [" \o ToString(from)
             \o "] with length " \o ToString(Len(states)))
  ELSE Ok([states EXCEPT ![from + 1] = Append(@, [term |-> term, to |-> to])])

RECURSIVE compile(_, _, _)
RECURSIVE compileChoice(_, _, _, _)
RECURSIVE compileSeq(_, _, _, _)
RECURSIVE compileRange(_, _, _, _)

\* The closure compile of nfa, by the states it leaves.  The edges it
\* returns are copies: connect sets their to and the states keep theirs, so
\* that what compile returns decides nothing.
compile(expr, from, states) ==
  CASE expr.Type = "choice" -> compileChoice(expr.Exprs, 1, from, states)
    [] expr.Type = "seq" -> compileSeq(expr.Exprs, 1, from, states)
    [] expr.Type = "star" ->
         Then(edge(node(states), from, Len(states), ""), LAMBDA s1 :
         Then(compile(expr.Expr[1], Len(states), s1), LAMBDA s2 :
           edge(s2, Len(states), 0, "")))
    [] expr.Type = "plus" ->
         Then(compile(expr.Expr[1], from, node(states)), LAMBDA s1 :
         Then(compile(expr.Expr[1], Len(states), s1), LAMBDA s2 :
           edge(s2, Len(states), 0, "")))
    [] expr.Type = "opt" ->
         Then(edge(states, from, 0, ""), LAMBDA s1 : compile(expr.Expr[1], from, s1))
    [] expr.Type = "range" -> compileRange(expr, 0, from, states)
    [] expr.Type = "name" -> edge(states, from, 0, expr.Value)
    [] OTHER -> Panic("Unknown type " \o expr.Type)

compileChoice(exprs, i, from, states) ==
  IF i > Len(exprs) THEN Ok(states)
  ELSE Then(compile(exprs[i], from, states), LAMBDA s1 :
         compileChoice(exprs, i + 1, from, s1))

\* The case "seq": the loop variable hides the sequence, so that the last
\* expression is looked for among the Exprs of the one just compiled, and
\* the end of the loop falls through to the panic.
compileSeq(exprs, i, from, states) ==
  IF i > Len(exprs) THEN Panic("Unknown type seq")
  ELSE Then(compile(exprs[i], from, states), LAMBDA s1 :
         IF i - 1 = Len(exprs[i].Exprs) - 1 THEN Ok(s1)
         ELSE compileSeq(exprs, i + 1, Len(s1), node(s1)))

\* The case "range": i counts the repetitions compiled.
compileRange(expr, i, cur, states) ==
  IF i < expr.Min
  THEN Then(compile(expr.Expr[1], cur, node(states)), LAMBDA s1 :
         compileRange(expr, i + 1, Len(states), s1))
  ELSE IF expr.Max = -1
  THEN Then(compile(expr.Expr[1], cur, states), LAMBDA s1 : edge(s1, cur, 0, ""))
  ELSE IF i < expr.Max
  THEN Then(edge(node(states), cur, Len(states), ""), LAMBDA s1 :
       Then(compile(expr.Expr[1], cur, s1), LAMBDA s2 :
         compileRange(expr, i + 1, Len(states), s2)))
  ELSE edge(states, cur, 0, "")

\* nfa: compile from state 0 of no states yet, then the last state.
nfa(expr) == Then(compile(expr, 0, <<>>), LAMBDA states : Ok(node(states)))

\* dfa: explore stores the state it makes in labeled, a nil map.
dfa(states) == Panic("assignment to entry in nil map")

\* parseContentMatch.  dfa does not return, and checkForDeadEnds has
\* nothing to check.
parseContentMatch(str, nodeTypes) ==
  Let(newTokenStream(str, nodeTypes), LAMBDA stream :
    IF ~HasNext(stream) THEN Ok(EmptyContentMatch)
    ELSE Let(parseExpr(stream), LAMBDA expr :
           IF expr.tag = "err" THEN Err(expr.msg)
           ELSE IF ~IsOk(expr) THEN expr
           ELSE IF HasNext(expr.stream) THEN StreamErr(stream, "Unexpected trailing text")
           ELSE Then(nfa(expr.val), LAMBDA states : dfa(states))))

\* The node types in the order of the schema, and the orders in which a
\* range over the map of the node types may yield them.
NodeTypeOrder ==
  <<"doc", "paragraph", "blockquote", "heading", "code_block", "text", "image",
    "mention", "hard_break">>
MapOrders ==
  { NodeTypeOrder,
    [i \in DOMAIN NodeTypeOrder |-> NodeTypeOrder[Len(NodeTypeOrder) + 1 - i]] }

\* The content expressions: those of the tests of ranges and options, and
\* every string of up to MaxLen lexemes in which no word follows a word.
Words == {"text", "paragraph", "block", "bogus", "2"}
Lexemes == Words \cup {"(", ")", "|", "+", "{", Space}
RangeThenOpt == <<"hard_break", "{", "2", ",", "4", "}", Space, "image", "?">>
TestExprs ==
  { RangeThenOpt,
    <<"hard_break", "{", "2", ",", "4", "}">>,
    <<"hard_break", Space, "{", Space, "2", Space, ",", Space, "4", Space, "}">>,
    <<"image", "?">>,
    <<"image", Space, "?">>,
    <<"(", Space, "paragraph", Space, "|", Space, "heading", Space, ")", Space, "+">>,
    <<"inline", Space, "*">> }
ContentExprs ==
  TestExprs \cup
    { s \in SeqsUpTo(Lexemes, MaxLen) :
        \A i \in 1..Len(s) - 1 : ~(s[i] \in Words /\ s[i + 1] \in Words) }

\* match, err := parseContentMatch(str, nodeTypes)
DoParseContentMatch(str, nodeTypes) ==
  /\ fop = "init"
  /\ fop' = "parseContentMatch"
  /\ fin' = <<str, nodeTypes>>
  /\ fout' = parseContentMatch(str, nodeTypes)
  /\ UNCHANGED <<stepVars, cacheVars>>

NextContent ==
  \E str \in ContentExprs, nodeTypes \in MapOrders : DoParseContentMatch(str, nodeTypes)

SpecContent == FragmentInit /\ [][NextContent]_vars

RECURSIVE MatchTypes(_, _, _)
\* The loop of the tests' match: MatchType over a sequence of types.
MatchTypes(m, types, i) ==
  IF m = NoMatch \/ i > Len(types) THEN m
  ELSE MatchTypes(MatchType(m, types[i]), types, i + 1)

\* m != nil && m.ValidEnd after the types
Accepts(m, types) ==
  Let(MatchTypes(m, types, 1), LAMBDA end :
    end # NoMatch /\ ContentMatchState(end).validEnd)

\* n times the type
Times(typ, count) == [i \in 1..count |-> typ]

\* C18: the automaton of "hard_break{2,4} image?" accepts hard_break
\* hard_break image and rejects hard_break hard_break image image; that of
\* e{2,4} accepts exactly 2 to 4 times e, and that of e? at most one e.
RangeAndOptAccepted ==
  fop = "parseContentMatch" =>
    /\ fin[1] = RangeThenOpt =>
         /\ IsOk(fout)
         /\ Accepts(fout.val, <<"hard_break", "hard_break", "image">>)
         /\ ~Accepts(fout.val, <<"hard_break", "hard_break", "image", "image">>)
    /\ fin[1] = <<"hard_break", "{", "2", ",", "4", "}">> =>
         /\ IsOk(fout)
         /\ \A count \in 0..5 :
              Accepts(fout.val, Times("hard_break", count)) <=> count \in 2..4
    /\ fin[1] = <<"image", "?">> =>
         /\ IsOk(fout)
         /\ \A count \in 0..2 :
              Accepts(fout.val, Times("image", count)) <=> count \in 0..1

\* The expression of the test was parsed, and its first field refused as a
\* token.
RangeTokenRefused ==
  /\ fop = "parseContentMatch"
  /\ fin[1] = RangeThenOpt
  /\ fout = Err("Unexpected token \"hard_break{2,4}\" (in content expression "
                \o "\"hard_break{2,4} image?\")")

\* C19: parseContentMatch returns, with an automaton or with an error and
\* without a panic, and returns the same whatever the order of the map of
\* the node types.
ParseReturnsTheSame ==
  fop = "parseContentMatch" =>
    /\ fout.tag \in {"ok", "err"}
    /\ \A nodeTypes \in MapOrders : parseContentMatch(fin[1], nodeTypes) = fout

\* The expression "paragraph" was given, and the call is in the loop of
\* parseExprSubscript for ever.
SingleNameNeverParsed ==
  /\ fop = "parseContentMatch"
  /\ fin[1] = <<"paragraph">>
  /\ fout = Diverges("parseExprSubscript")

\* C20: when a ReplaceAroundStep s has been applied to d with success and
\* result d', s.Invert(d) is a ReplaceAroundStep, and its Apply to d'
\* succeeds and yields a document equal to d.
ReplaceAroundInvertRestores ==
  step.kind = "replaceAround" =>
    /\ op = "invert" => IsOk(aux) /\ aux.val # NilStep /\ aux.val.kind = "replaceAround"
    /\ op = "undo" => IsOk(out) /\ out.val = prevDoc

\* A ReplaceAroundStep that wraps the content of a paragraph was applied,
\* and its Invert returned no step.
WrapHasNoInverse ==
  /\ op = "invert"
  /\ step.kind = "replaceAround"
  /\ step.slice.content.size > 0
  /\ step.gapFrom < step.gapTo
  /\ aux.val = NilStep

\* C21: when a ReplaceAroundStep has been applied with success, the size of
\* the content has changed as the two triples of its step map say, and the
\* content of the gap stands unchanged in the result from from + insert on.
ReplaceAroundKeepsGap ==
  (op = "apply" /\ step.kind = "replaceAround" /\ IsOk(out)) =>
    /\ doc.content.size
         = prevDoc.content.size - (step.gapFrom - step.from) - (step.to - step.gapTo)
             + SliceSize(step.slice)
    /\ NodeSlice(doc, step.from + step.insert,
                 step.from + step.insert + (step.gapTo - step.gapFrom))
         = NodeSlice(prevDoc, step.gapFrom, step.gapTo)

\* The document the last Apply was given.
AppliedTo == IF IsOk(out) THEN prevDoc ELSE doc

\* doc.Slice(gapFrom, gapTo) of the last step returned a slice that is open
\* on a side.
GapOpen ==
  /\ IsOk(NodeSlice(AppliedTo, step.gapFrom, step.gapTo))
  /\ \/ NodeSlice(AppliedTo, step.gapFrom, step.gapTo).val.openStart # 0
     \/ NodeSlice(AppliedTo, step.gapFrom, step.gapTo).val.openEnd # 0

\* The positions of the last step are in order.
StepOrdered ==
  /\ 0 <= step.from /\ step.from <= step.gapFrom
  /\ step.gapFrom <= step.gapTo /\ step.gapTo <= step.to

\* A ReplaceAroundStep with its positions in order was applied with success
\* over a gap that is open at its end, and the size of the result is not the
\* one that the triples of its step map give.
OpenGapSizeOff ==
  /\ op = "apply"
  /\ step.kind = "replaceAround"
  /\ IsOk(out)
  /\ StepOrdered
  /\ GapOpen
  /\ doc.content.size
       # prevDoc.content.size - (step.gapFrom - step.from) - (step.to - step.gapTo)
           + SliceSize(step.slice)

\* C22: a ReplaceAroundStep whose gap is open on a side produces no document:
\* its Apply fails with "Gap is not a flat range", unless the check of
\* structure has failed before.
OpenGapRefused ==
  (op = "apply" /\ step.kind = "replaceAround" /\ GapOpen) =>
    \/ out = Err("Gap is not a flat range")
    \/ step.structure /\ out = Err("Structure gap-replace would overwrite content")

\* A ReplaceAroundStep with its positions in order, whose gap is open at its
\* end only, was applied, and Apply returned a document.
HalfOpenGapPassed ==
  /\ op = "apply"
  /\ step.kind = "replaceAround"
  /\ StepOrdered
  /\ GapOpen
  /\ NodeSlice(AppliedTo, step.gapFrom, step.gapTo).val.openStart = 0
  /\ IsOk(out)
  /\ ~step.structure

\* The tokens of a fragment, one for each position: a character of a text
\* node with its marks, a leaf, the opening token of a node with its type,
\* attrs and marks, and its closing token.
RECURSIVE FragmentTokens(_)
NodeTokens(nd) ==
  IF nd.isText
  THEN [i \in 1..Len(nd.text) |->
          [tok |-> "char", text |-> nd.text[i], type |-> nd.type, attrs |-> nd.attrs, marks |-> nd.marks]]
  ELSE IF IsLeaf(nd)
  THEN <<[tok |-> "leaf", text |-> "", type |-> nd.type, attrs |-> nd.attrs, marks |-> nd.marks]>>
  ELSE <<[tok |-> "open", text |-> "", type |-> nd.type, attrs |-> nd.attrs, marks |-> nd.marks]>>
         \o FragmentTokens(nd.content)
         \o <<[tok |-> "close", text |-> "", type |-> "", attrs |-> {}, marks |-> <<>>]>>

FragmentTokens(f) ==
  IF f.content = <<>> THEN <<>>
  ELSE NodeTokens(Head(f.content)) \o FragmentTokens([f EXCEPT !.content = Tail(f.content)])

\* C23: when a ReplaceStep has been applied with success, the size of the
\* content has changed by the size of the slice less the size of the range, and
\* the tokens before from and the tokens after to are in the result as they
\* were, the latter moved by the same amount.
ReplaceKeepsOutside ==
  (op = "apply" /\ step.kind = "replace" /\ IsOk(out)) =>
    /\ doc.content.size
         = prevDoc.content.size - (step.to - step.from) + SliceSize(step.slice)
    /\ Len(FragmentTokens(doc.content)) = doc.content.size
    /\ SubSeq(FragmentTokens(doc.content), 1, step.from)
         = SubSeq(FragmentTokens(prevDoc.content), 1, step.from)
    /\ SubSeq(FragmentTokens(doc.content), step.from + SliceSize(step.slice) + 1,
              doc.content.size)
         = SubSeq(FragmentTokens(prevDoc.content), step.to + 1, prevDoc.content.size)

\* A ReplaceStep has replaced a range that is not empty, inside the document,
\* by a slice that is not empty.
RangeReplacedBySlice ==
  /\ op = "apply"
  /\ step.kind = "replace"
  /\ IsOk(out)
  /\ 0 < step.from /\ step.from < step.to /\ step.to < prevDoc.content.size
  /\ SliceSize(step.slice) > 0
  /\ doc # prevDoc

\* The tokens of a sequence are closing tokens followed by opening tokens.
ClosingThenOpening(toks) ==
  /\ \A i \in 1..Len(toks) : toks[i].tok \in {"close", "open"}
  /\ \A i \in 1..Len(toks), j \in 1..Len(toks) :
       (i < j /\ toks[i].tok = "open") => toks[j].tok = "open"

\* The range of the last step lies in the document it was applied to.
RangeInside ==
  /\ 0 <= step.from /\ step.from <= step.to
  /\ step.to <= AppliedTo.content.size

\* The tokens of the document between from and to.
RangeTokens == SubSeq(FragmentTokens(AppliedTo.content), step.from + 1, step.to)

\* C24: a ReplaceStep with structure set fails with "Structure replace would
\* overwrite content" whenever its range holds another token than closing
\* tokens followed by opening tokens, and gives the result of the same step
\* without structure otherwise.
StructureReplaceGuards ==
  (op = "apply" /\ step.kind = "replace" /\ step.structure /\ RangeInside) =>
    IF ClosingThenOpening(RangeTokens)
    THEN out = ReplaceStepApply([step EXCEPT !.structure = FALSE], AppliedTo)
    ELSE out = Err("Structure replace would overwrite content")

\* A ReplaceStep with structure set was refused over the closing token of a
\* paragraph and the opening token of the next, which the same step without
\* structure joins.
JoinRefusedByStructure ==
  /\ op = "apply"
  /\ step.kind = "replace"
  /\ step.structure
  /\ RangeInside
  /\ step.to - step.from = 2
  /\ ClosingThenOpening(RangeTokens)
  /\ out = Err("Structure replace would overwrite content")
  /\ IsOk(ReplaceStepApply([step EXCEPT !.structure = FALSE], AppliedTo))

\* ---------------------------------------------------------------------
\* Position maps (transform/map.go) and Step.Map.

NewMapResult(pos, deleted) == [pos |-> pos, deleted |-> deleted]

\* A StepMap: ranges is a sequence of triples <<start, oldSize, newSize>>.
NewStepMap(ranges, inverted) == [ranges |-> ranges, inverted |-> inverted]

\* The loop of StepMap._map from the triple of index i on; the result is a
\* MapResult, of which Map keeps the position (simple).
RECURSIVE mapLoop(_, _, _, _, _)
mapLoop(sm, pos, assoc, i, diff) ==
  IF i > Len(sm.ranges) THEN NewMapResult(pos + diff, FALSE)
  ELSE Let(sm.ranges[i][1] - (IF sm.inverted THEN diff ELSE 0), LAMBDA start :
       IF start > pos THEN NewMapResult(pos + diff, FALSE)
       ELSE Let(sm.ranges[i][IF sm.inverted THEN 3 ELSE 2], LAMBDA oldSize :
            Let(sm.ranges[i][IF sm.inverted THEN 2 ELSE 3], LAMBDA newSize :
            Let(start + oldSize, LAMBDA end :
              IF pos <= end
              THEN Let(IF oldSize = 0 THEN assoc
                       ELSE IF pos = start THEN 1
                       ELSE IF pos = end THEN -1
                       ELSE assoc, LAMBDA side :
                     NewMapResult(start + diff + (IF side >= 0 THEN newSize ELSE 0),
                                  IF assoc < 0 THEN pos # start ELSE pos # end))
              ELSE mapLoop(sm, pos, assoc, i + 1, diff + newSize - oldSize)))))

StepMapMapResult(sm, pos, assoc) == mapLoop(sm, pos, assoc, 1, 0)

StepMapMap(sm, pos, assoc) == mapLoop(sm, pos, assoc, 1, 0).pos

\* Step.Map returns the mapped step, or NilStep for nil.
ReplaceStepMap(s, mapping) ==
  Let(StepMapMapResult(mapping, s.from, 1), LAMBDA from :
  Let(StepMapMapResult(mapping, s.to, -1), LAMBDA to :
    IF from.deleted /\ to.deleted THEN NilStep
    ELSE NewReplaceStep(from.pos, Max(from.pos, to.pos), s.slice, FALSE)))

ReplaceAroundStepMap(s, mapping) ==
  Let(StepMapMapResult(mapping, s.from, 1), LAMBDA from :
  Let(StepMapMapResult(mapping, s.to, -1), LAMBDA to :
  Let(StepMapMap(mapping, s.gapFrom, -1), LAMBDA gapFrom :
  Let(StepMapMap(mapping, s.gapTo, 1), LAMBDA gapTo :
    IF (from.deleted /\ to.deleted) \/ gapFrom < from.pos \/ gapTo > to.pos
    THEN NilStep
    ELSE NewReplaceAroundStep(from.pos, to.pos, gapFrom, gapTo,
                              s.slice, s.insert, s.structure)))))

AddMarkStepMap(s, mapping) ==
  Let(StepMapMapResult(mapping, s.from, 1), LAMBDA from :
  Let(StepMapMapResult(mapping, s.to, -1), LAMBDA to :
    IF (from.deleted /\ to.deleted) \/ from.pos >= to.pos THEN NilStep
    ELSE NewAddMarkStep(from.pos, to.pos, s.mark)))

RemoveMarkStepMap(s, mapping) ==
  Let(StepMapMapResult(mapping, s.from, 1), LAMBDA from :
  Let(StepMapMapResult(mapping, s.to, -1), LAMBDA to :
    IF (from.deleted /\ to.deleted) \/ from.pos >= to.pos THEN NilStep
    ELSE NewRemoveMarkStep(from.pos, to.pos, s.mark)))

SetAttrsStepMap(s, mapping) ==
  Let(StepMapMapResult(mapping, s.pos, 1), LAMBDA result :
    IF result.deleted THEN NilStep
    ELSE NewSetAttrsStep(result.pos, s.attrs))

StepMap(s, mapping) ==
  CASE s.kind = "replace" -> ReplaceStepMap(s, mapping)
    [] s.kind = "replaceAround" -> ReplaceAroundStepMap(s, mapping)
    [] s.kind = "addMark" -> AddMarkStepMap(s, mapping)
    [] s.kind = "removeMark" -> RemoveMarkStepMap(s, mapping)
    [] s.kind = "setAttrs" -> SetAttrsStepMap(s, mapping)

\* ReplaceStep.GetMap and ReplaceAroundStep.GetMap.
ReplaceStepGetMap(s) ==
  NewStepMap(<<<<s.from, s.to - s.from, SliceSize(s.slice)>>>>, FALSE)

ReplaceAroundStepGetMap(s) ==
  NewStepMap(<<<<s.from, s.gapFrom - s.from, s.insert>>,
               <<s.gapTo, s.to - s.gapTo, SliceSize(s.slice) - s.insert>>>>, FALSE)

\* The steps that are mapped: their positions are in order, within 0..MaxMapPos.
MaxMapPos == 4

MappedSteps ==
  { NewReplaceStep(from, to, slice, structure) :
      from \in 0..MaxMapPos, to \in 0..MaxMapPos,
      slice \in {EmptySlice, NewSlice(FragmentFromArray(<<T(<<"x">>)>>), 0, 0)},
      structure \in BOOLEAN }
  \cup
  { NewReplaceAroundStep(from, to, from + g, to - g,
                         NewSlice(FragmentFromArray(<<Blockquote(<<>>)>>), 0, 0), 1, FALSE) :
      from \in 0..MaxMapPos, to \in 0..MaxMapPos, g \in {0, 1} }
  \cup
  { NewAddMarkStep(from, to, Em) : from \in 0..MaxMapPos, to \in 0..MaxMapPos }
  \cup
  { NewRemoveMarkStep(from, to, Em) : from \in 0..MaxMapPos, to \in 0..MaxMapPos }
  \cup
  { NewSetAttrsStep(pos, {}) : pos \in 0..MaxMapPos }

Ordered(s) ==
  CASE s.kind = "replaceAround" ->
         s.from <= s.gapFrom /\ s.gapFrom <= s.gapTo /\ s.gapTo <= s.to
    [] s.kind = "setAttrs" -> TRUE
    [] OTHER -> s.from <= s.to

\* The maps that steps are mapped through: the maps of the replace steps of
\* MappedSteps, and their inverses.
StepMaps ==
  { NewStepMap(ReplaceStepGetMap(s).ranges, inverted) :
      s \in {t \in MappedSteps : t.kind = "replace" /\ Ordered(t)}, inverted \in BOOLEAN }
  \cup
  { NewStepMap(ReplaceAroundStepGetMap(s).ranges, inverted) :
      s \in {t \in MappedSteps : t.kind = "replaceAround" /\ Ordered(t)},
      inverted \in BOOLEAN }

DoMap(s, mapping) ==
  /\ fop = "init"
  /\ fop' = "map"
  /\ fin' = <<s, mapping>>
  /\ fout' = StepMap(s, mapping)
  /\ UNCHANGED <<stepVars, cacheVars>>

NextMap ==
  \E s \in {t \in MappedSteps : Ordered(t)}, mapping \in StepMaps : DoMap(s, mapping)

SpecMap == FragmentInit /\ [][NextMap]_vars

\* The triples of a map as they lie in the document that is mapped from: for
\* an inverted map the sizes change places and the starts move by what the
\* triples before them have inserted.
RECURSIVE RangesFrom(_, _, _)
RangesFrom(sm, i, diff) ==
  IF i > Len(sm.ranges) THEN <<>>
  ELSE IF sm.inverted
  THEN <<[start |-> sm.ranges[i][1] - diff, oldSize |-> sm.ranges[i][3]]>>
         \o RangesFrom(sm, i + 1, diff + sm.ranges[i][2] - sm.ranges[i][3])
  ELSE <<[start |-> sm.ranges[i][1], oldSize |-> sm.ranges[i][2]]>>
         \o RangesFrom(sm, i + 1, 0)

\* pos lies inside content that the map deletes.
InDeleted(sm, pos) ==
  \E i \in 1..Len(RangesFrom(sm, 1, 0)) :
    /\ RangesFrom(sm, 1, 0)[i].start < pos
    /\ pos < RangesFrom(sm, 1, 0)[i].start + RangesFrom(sm, 1, 0)[i].oldSize

\* C25: a step that Map returns is of the variant of the step mapped, its
\* positions are the images of the positions of that step (starts of ranges
\* with association 1, ends with -1; the end of a ReplaceStep not before its
\* start), they are in order, and Map returns nil for a step of which both
\* ends lie inside content that the map deletes.
MapKeepsStepInOrder ==
  fop = "map" =>
    /\ fout # NilStep =>
         /\ fout.kind = fin[1].kind
         /\ fout.kind = "setAttrs" => fout.pos = StepMapMap(fin[2], fin[1].pos, 1)
         /\ fout.kind # "setAttrs" =>
              /\ fout.from = StepMapMap(fin[2], fin[1].from, 1)
              /\ fout.to \in {StepMapMap(fin[2], fin[1].to, -1), fout.from}
         /\ fout.kind = "replaceAround" =>
              /\ fout.to = StepMapMap(fin[2], fin[1].to, -1)
              /\ fout.gapFrom = StepMapMap(fin[2], fin[1].gapFrom, -1)
              /\ fout.gapTo = StepMapMap(fin[2], fin[1].gapTo, 1)
         /\ Ordered(fout)
    /\ (fin[1].kind = "setAttrs" /\ InDeleted(fin[2], fin[1].pos)) => fout = NilStep
    /\ (fin[1].kind # "setAttrs" /\ InDeleted(fin[2], fin[1].from)
          /\ InDeleted(fin[2], fin[1].to)) => fout = NilStep

\* Map has returned a ReplaceAroundStep whose gap ends before it starts, for
\* a step whose positions were in order.
GapCrossedByMap ==
  /\ fop = "map"
  /\ fin[1].kind = "replaceAround"
  /\ Ordered(fin[1])
  /\ fout.kind = "replaceAround"
  /\ fout.gapTo < fout.gapFrom

\* A node starts at pos in the fragment f, or in the content of a node of f.
RECURSIVE StartsNode(_, _)
StartsNode(f, pos) ==
  \E k \in 1..Len(f.content) :
    \/ ChildStart(f, k - 1) = pos
    \/ /\ ~f.content[k].isText
       /\ ChildStart(f, k - 1) < pos
       /\ pos < ChildStart(f, k)
       /\ StartsNode(f.content[k].content, pos - ChildStart(f, k - 1) - 1)

\* C26: when a SetAttrsStep has been applied with success, the token at pos
\* is the same node with the attrs of the step laid over its attrs, and every
\* other token is as it was; and the step fails when no node starts at pos.
SetAttrsChangesOneNode ==
  (op = "apply" /\ step.kind = "setAttrs") =>
    /\ IsOk(out) =>
         /\ doc.content.size = prevDoc.content.size
         /\ StartsNode(prevDoc.content, step.pos)
         /\ \A i \in 1..prevDoc.content.size :
              FragmentTokens(doc.content)[i] =
                IF i = step.pos + 1
                THEN [FragmentTokens(prevDoc.content)[i] EXCEPT
                        !.attrs = mergeAttrs(@, step.attrs)]
                ELSE FragmentTokens(prevDoc.content)[i]
    /\ ~StartsNode(AppliedTo.content, step.pos) => out.tag = "err"

\* A SetAttrsStep was applied at a position beyond the content, where no node
\* starts, and Apply has returned no failure: it has panicked.
SetAttrsBeyondContentPanicked ==
  /\ op = "apply"
  /\ step.kind = "setAttrs"
  /\ step.pos > AppliedTo.content.size
  /\ ~StartsNode(AppliedTo.content, step.pos)
  /\ out.tag = "panic"

\* For each token of a fragment, the type of the node that the token lies in.
RECURSIVE ParentTypes(_, _)
ParentTypes(f, parent) ==
  IF f.content = <<>> THEN <<>>
  ELSE (IF Head(f.content).isText
        THEN [i \in 1..Len(Head(f.content).text) |-> parent]
        ELSE IF IsLeaf(Head(f.content)) THEN <<parent>>
        ELSE <<parent>> \o ParentTypes(Head(f.content).content, Head(f.content).type)
               \o <<parent>>)
       \o ParentTypes([f EXCEPT !.content = Tail(f.content)], parent)

\* The marks that a mark step leaves on an inline node with the given marks
\* in a parent of the given type.
MarksAfter(s, marks, parent) ==
  IF s.kind = "removeMark" THEN RemoveFromSet(s.mark, marks)
  ELSE IF AllowsMarkType(parent, s.mark.type) THEN AddToSet(s.mark, marks)
  ELSE marks

RECURSIVE NodeEqRun(_, _)
RECURSIVE FragmentEqLoop(_, _, _)
FragmentEqLoop(content, other, i) ==
  IF i > Len(content) THEN [eq |-> TRUE, content |-> content]
  ELSE Let(NodeEqRun(content[i], other[i]), LAMBDA r :
          IF ~r.eq THEN [eq |-> FALSE, content |-> [content EXCEPT ![i] = r.n]]
          ELSE FragmentEqLoop([content EXCEPT ![i] = r.n], other, i + 1))

NodeEqRun(nd, other) ==
  Let([nd EXCEPT !.attrs = HasMarkupAttrs(nd, other.type, other.attrs)], LAMBDA n1 :
    IF ~SameMarkup(nd, other) \/ Len(nd.content.content) # Len(other.content.content)
    THEN [eq |-> FALSE, n |-> n1]
    ELSE Let(FragmentEqLoop(nd.content.content, other.content.content, 1), LAMBDA r :
            [eq |-> r.eq, n |-> [n1 EXCEPT !.content.content = r.content]]))

\* The array of the caller when FragmentFromArray returns.
FragmentFromArrayAfter(array) ==
  IF Len(array) = 0 THEN array
  ELSE FragmentFromArrayLoop(array, array, 1, 0, 0).array

\* The receiver when f.Append(other) returns.
FragmentAppendAfter(f, other) ==
  IF other.size = 0 \/ f.size = 0 \/ ~IsText(LastChild(f)) THEN f
  ELSE [f EXCEPT !.content[Len(f.content)].attrs =
          HasMarkupAttrs(LastChild(f), FirstChild(other).type, FirstChild(other).attrs)]

\* Nodes built with NewNode: headings with and without content, a mark, and
\* the attribute nodeType; blockquotes around them.
EqAttrs ==
  { {<<"level", 1>>}, {<<"level", 2>>}, {<<"level", 1>>, <<"nodeType", "heading">>} }

EqLeaves ==
  { NewNode("heading", attrs, FragmentFromArray(children), marks) :
      attrs \in EqAttrs, children \in {<<>>, <<T(<<"a">>)>>}, marks \in {NoMarks, <<Em>>} }

EqNodes ==
  EqLeaves \cup
  { NewNode("blockquote", {}, FragmentFromArray(<<h, g>>), NoMarks) :
      h \in {x \in EqLeaves : x.marks = NoMarks /\ x.content.size = 0},
      g \in {x \in EqLeaves : x.marks = NoMarks /\ x.content.size = 0} }

\* eq := a.Eq(b)
DoEq(a, b) ==
  /\ fop = "init"
  /\ fop' = "eq"
  /\ fin' = <<a, b>>
  /\ fout' = [result |-> NodeEqRun(a, b).eq, after |-> <<NodeEqRun(a, b).n, b>>]
  /\ UNCHANGED fragUnchanged

\* same := a.SameMarkup(b)
DoSameMarkup(a, b) ==
  /\ fop = "init"
  /\ fop' = "sameMarkup"
  /\ fin' = <<a, b>>
  /\ fout' = [result |-> SameMarkup(a, b),
              after |-> <<[a EXCEPT !.attrs = HasMarkupAttrs(a, b.type, b.attrs)], b>>]
  /\ UNCHANGED fragUnchanged

\* f := FragmentFromArray(array)
DoFromArrayObject(array) ==
  /\ fop = "init"
  /\ fop' = "fromArray"
  /\ fin' = <<array>>
  /\ fout' = [result |-> FragmentFromArray(array), after |-> <<FragmentFromArrayAfter(array)>>]
  /\ UNCHANGED fragUnchanged

\* h := f.Append(g)
DoAppendObject(f, g) ==
  /\ fop = "init"
  /\ fop' = "append"
  /\ fin' = <<f, g>>
  /\ fout' = [result |-> FragmentAppend(f, g), after |-> <<FragmentAppendAfter(f, g), g>>]
  /\ UNCHANGED fragUnchanged

NextObjects ==
  \/ \E a \in EqNodes, b \in EqNodes : DoEq(a, b)
  \/ \E a \in EqLeaves, b \in EqLeaves : DoSameMarkup(a, b)
  \/ \E array \in Arrays : DoFromArrayObject(array)
  \/ \E f \in Fragments, g \in Fragments : DoAppendObject(f, g)

SpecObjects == FragmentInit /\ [][NextObjects]_vars

\* C28: no operation of the model writes to an object that it was given:
\* when Eq, SameMarkup, FragmentFromArray or Append returns, the nodes, the
\* array and the fragments of the call are as they were before it.
ArgumentsUnchanged ==
  fop \in {"eq", "sameMarkup", "fromArray", "append"} => fout.after = fin

\* Eq has been called on a node without the attribute nodeType and a node
\* with it, and has written the attribute to its receiver.
EqWroteNodeType ==
  /\ fop = "eq"
  /\ ~HasAttr(fin[1].attrs, "nodeType")
  /\ HasAttr(fin[2].attrs, "nodeType")
  /\ HasAttr(fout.after[1].attrs, "nodeType")

\* The structural equality of two nodes: the same type, the same attrs, the
\* same marks, and children that are equal one by one.
RECURSIVE StructEq(_, _)
StructEq(a, b) ==
  /\ a.type = b.type
  /\ a.attrs = b.attrs
  /\ SameMarkSet(a.marks, b.marks)
  /\ Len(a.content.content) = Len(b.content.content)
  /\ \A i \in 1..Len(a.content.content) :
       StructEq(a.content.content[i], b.content.content[i])

\* C29: a.Eq(b) is the structural equality of a and b, whatever the names of
\* their attributes, and is the same as b.Eq(a).
EqIsStructural ==
  fop = "eq" =>
    /\ fout.result = StructEq(fin[1], fin[2])
    /\ fout.result = NodeEqRun(fin[2], fin[1]).eq

\* Eq has found equal two nodes of which only the second has the attribute
\* nodeType, and the call the other way round finds them different.
EqByNodeType ==
  /\ fop = "eq"
  /\ fin[2].attrs = fin[1].attrs \cup {<<"nodeType", "heading">>}
  /\ fin[2].attrs # fin[1].attrs
  /\ fout.result
  /\ ~NodeEqRun(fin[2], fin[1]).eq

\* ---------------------------------------------------------------------
\* Steps to JSON, and back.

\* A map[string]interface{} of attrs as a JSON object: the values as they are.
IsInt(v) == ToString(v) \in { ToString(i) : i \in 0..9 }

AttrsToJSON(attrs) ==
  JObj(Obj({ <<p[1], IF IsInt(p[2]) THEN JInt(p[2]) ELSE JStr(p[2])>> : p \in attrs }))

\* Mark.ToJSON
MarkToJSON(m) ==
  JObj(Obj({ <<"type", JStr(m.type)>>,
             <<"attrs", IF Cardinality(m.attrs) > 0 THEN AttrsToJSON(m.attrs) ELSE JAbsent>> }))

\* Node.ToJSON and Fragment.ToJSON: {type, attrs?, content?, marks?, text?},
\* a field left out when it is empty.
RECURSIVE NodeToJSON(_)
FragmentToJSON(f) ==
  IF f.size = 0 THEN JNull
  ELSE JArr([i \in 1..Len(f.content) |-> NodeToJSON(f.content[i])])

NodeToJSON(nd) ==
  JObj(Obj({ <<"type", JStr(nd.type)>>,
             <<"attrs", IF nd.attrs # {} THEN AttrsToJSON(nd.attrs) ELSE JAbsent>>,
             <<"content", IF nd.content.size > 0 THEN FragmentToJSON(nd.content) ELSE JAbsent>>,
             <<"marks", IF Len(nd.marks) > 0
                        THEN JArr([i \in 1..Len(nd.marks) |-> MarkToJSON(nd.marks[i])])
                        ELSE JAbsent>>,
             <<"text", IF nd.isText THEN JStr(nd.text) ELSE JAbsent>> }))

\* Slice.ToJSON
SliceToJSON(s) ==
  IF s.content.size = 0 THEN JNull
  ELSE JObj(Obj({ <<"content", FragmentToJSON(s.content)>>,
                  <<"openStart", IF s.openStart > 0 THEN JInt(s.openStart) ELSE JAbsent>>,
                  <<"openEnd", IF s.openEnd > 0 THEN JInt(s.openEnd) ELSE JAbsent>> }))

ReplaceStepToJSON(s) ==
  Obj({ <<"stepType", JStr("replace")>>,
        <<"from", JInt(s.from)>>,
        <<"to", JInt(s.to)>>,
        <<"slice", IF SliceSize(s.slice) > 0 THEN SliceToJSON(s.slice) ELSE JAbsent>>,
        <<"structure", IF s.structure THEN JBool(TRUE) ELSE JAbsent>> })

ReplaceAroundStepToJSON(s) ==
  Obj({ <<"stepType", JStr("replaceAround")>>,
        <<"from", JInt(s.from)>>,
        <<"to", JInt(s.to)>>,
        <<"gapFrom", JInt(s.gapFrom)>>,
        <<"gapTo", JInt(s.gapTo)>>,
        <<"insert", JInt(s.insert)>>,
        <<"slice", IF SliceSize(s.slice) > 0 THEN SliceToJSON(s.slice) ELSE JAbsent>>,
        <<"structure", IF s.structure THEN JBool(TRUE) ELSE JAbsent>> })

AddMarkStepToJSON(s) ==
  Obj({ <<"stepType", JStr("addMark")>>,
        <<"mark", MarkToJSON(s.mark)>>,
        <<"from", JInt(s.from)>>,
        <<"to", JInt(s.to)>> })

RemoveMarkStepToJSON(s) ==
  Obj({ <<"stepType", JStr("removeMark")>>,
        <<"mark", MarkToJSON(s.mark)>>,
        <<"from", JInt(s.from)>>,
        <<"to", JInt(s.to)>> })

SetAttrsStepToJSON(s) ==
  Obj({ <<"stepType", JStr("setAttrs")>>,
        <<"pos", JInt(s.pos)>>,
        <<"attrs", AttrsToJSON(s.attrs)>> })

StepToJSON(s) ==
  CASE s.kind = "replace" -> ReplaceStepToJSON(s)
    [] s.kind = "replaceAround" -> ReplaceAroundStepToJSON(s)
    [] s.kind = "addMark" -> AddMarkStepToJSON(s)
    [] s.kind = "removeMark" -> RemoveMarkStepToJSON(s)
    [] s.kind = "setAttrs" -> SetAttrsStepToJSON(s)

\* The steps that are encoded: the steps of the five variants that are applied
\* to documents, and mark steps for a mark with an attribute.
Link == NewMark("link", {<<"href", "u">>})

EncodedSteps ==
  { s \in Steps : 0 <= s.from /\ s.from <= s.to /\ s.to <= 2 /\ 0 <= s.pos /\ s.pos <= 2 }
  \cup { NewAddMarkStep(0, 1, Link), NewRemoveMarkStep(0, 1, Link) }

\* obj := s.ToJSON(); step, err := StepFromJSON(schema, obj)
DoRoundTrip(s) ==
  /\ fop = "init"
  /\ fop' = "roundTrip"
  /\ fin' = <<s>>
  /\ fout' = StepFromJSON(StepToJSON(s))
  /\ UNCHANGED <<stepVars, cacheVars>>

NextRoundTrip == \E s \in EncodedSteps : DoRoundTrip(s)

SpecRoundTrip == FragmentInit /\ [][NextRoundTrip]_vars

\* C30: StepFromJSON of the ToJSON of a step succeeds and returns a step of
\* the same variant with the same positions, slice, mark, attrs and structure.
StepRoundTrip ==
  fop = "roundTrip" => fout = Ok(fin[1])

\* A SetAttrsStep has been encoded, and StepFromJSON has not decoded it.
SetAttrsNotDecoded ==
  /\ fop = "roundTrip"
  /\ fin[1].kind = "setAttrs"
  /\ StepToJSON(fin[1])["stepType"] = JStr("setAttrs")
  /\ fout = Err("No step setAttrs defined")

====
